---- MODULE Spec2Model ----
(***************************************************************************)
(* RoCC (ccmatic variant, tcp_rocc_ccmatic): the per-connection controller *)
(* state of struct rocc_data / struct belief_data and the handler          *)
(* rocc_process_sample with the two belief updates it calls.               *)
(*                                                                         *)
(* Arithmetic.  TLC's integers are 32-bit signed, so the C type u32 is     *)
(* modelled as an unsigned word of 30 bits: U32_MAX is the all-ones        *)
(* word, every u32 result is reduced modulo U32_MOD, and the sum of two    *)
(* words still fits a TLC integer.  u64 values are kept exact (the inputs  *)
(* are bounded so that none wraps) and products that would leave the TLC   *)
(* range are divided exactly by MulDiv.                                    *)
(***************************************************************************)
EXTENDS Integers, Naturals, Sequences, FiniteSets, TLC

\* ------------------------------------------------------------- constants
U64_S_TO_US == 1000000
INIT_MAX_C == 100000
INIT_MIN_C == 1
rocc_num_intervals == 16
rocc_num_intervals_mask == 15
rocc_alpha_segments == 5
rocc_loss_thresh == 64
rocc_history_periods == 8
rocc_timeout_period == 12
rocc_significant_mult_percent == 110

SLOW_START == "SLOW_START"
CONG_AVOID == "CONG_AVOID"

\* ------------------------------------------------------------ arithmetic
U32_MOD == 2 ^ 30
U32_MAX == U32_MOD - 1
TLC_INT_MAX == U32_MOD + U32_MAX

\* conversion of a C integer to u32 (a negative long becomes a large word)
U32(x) == x % U32_MOD

max_t(a, b) == IF a > b THEN a ELSE b
min_t(a, b) == IF a < b THEN a ELSE b

\* <<q, r>> with a * b = q * c + r and 0 <= r < c, without forming a * b:
\* b is taken one binary digit at a time (any a, b >= 0 and c > 0 whose
\* quotient fits)
RECURSIVE MulDivBinary(_, _, _)
MulDivBinary(a, b, c) ==
    IF b = 0 THEN <<0, 0>>
    ELSE LET step(h) ==
                 LET dq == IF h[2] >= c - h[2] THEN 1 ELSE 0
                     r2 == IF dq = 1 THEN h[2] - (c - h[2]) ELSE 2 * h[2]
                     q2 == 2 * h[1] + dq
                     oq == IF r2 >= c - (a % c) THEN 1 ELSE 0
                     r3 == IF oq = 1 THEN r2 - (c - (a % c)) ELSE r2 + (a % c)
                 IN  IF b % 2 = 0 THEN <<q2, r2>> ELSE <<q2 + (a \div c) + oq, r3>>
         IN  step(MulDivBinary(a, b \div 2, c))

\* the same with b taken one digit of base B at a time, for a < c and
\* B * (c + a) within the TLC range
RECURSIVE MulDivDigits(_, _, _, _)
MulDivDigits(a, b, c, B) ==
    IF b = 0 THEN <<0, 0>>
    ELSE LET step(h) == <<B * h[1] + (B * h[2] + a * (b % B)) \div c,
                          (B * h[2] + a * (b % B)) % c>>
         IN  step(MulDivDigits(a, b \div B, c, B))

MulDivQR(a, b, c) ==
    IF c + (a % c) <= TLC_INT_MAX \div 2
    THEN LET add(h) == <<(a \div c) * b + h[1], h[2]>>
         IN  add(MulDivDigits(a % c, b, c, TLC_INT_MAX \div (c + (a % c))))
    ELSE MulDivBinary(max_t(a, b), min_t(a, b), c)

\* floor(a * b / c) in u64
MulDiv(a, b, c) ==
    IF a = 0 \/ b <= TLC_INT_MAX \div a THEN (a * b) \div c
    ELSE MulDivQR(a, b, c)[1]

\* a * b in u32 for a, b < U32_MOD, by halves of the word: the product of the
\* two high halves is a multiple of U32_MOD
U32_HALF == 2 ^ 15
MulU32(a, b) ==
    U32((a % U32_HALF) * (b % U32_HALF)
        + U32_HALF * (((a \div U32_HALF) * (b % U32_HALF)
                       + (a % U32_HALF) * (b \div U32_HALF)) % U32_HALF))

\* include/net/tcp.h: u32 tcp_stamp_us_delta(u64 t1, u64 t0)
\*   { return max_t(s64, t1 - t0, 0); }
tcp_stamp_us_delta(t1, t0) == U32(max_t(t1 - t0, 0))

\* i & rocc_num_intervals_mask
Slot(i) == i % (rocc_num_intervals_mask + 1)

\* ------------------------------------------------------------------ state
VARIABLES
    rocc,            \* struct rocc_data (inet_csk_ca(sk))
    beliefs,         \* struct belief_data (rocc->beliefs)
    tsk,             \* the fields of struct tcp_sock the controller reads and writes
    sk_pacing_rate,  \* sk->sk_pacing_rate, bytes per second
    rs,              \* the rate sample of the last call
    ev,              \* what the last call did (observation only)
    calls,           \* how many samples the stack has handed over so far
    id,              \* static u32 id, shared by all connections
    socks,           \* per connection: where it is in its life, the pointers
                     \* rocc->intervals and rocc->beliefs, and rocc->id
    heap             \* the buffers kzalloc has handed out and kfree has not
                     \* taken back

vars == <<rocc, beliefs, tsk, sk_pacing_rate, rs, ev, calls, id, socks, heap>>

\* the connections that use this congestion control; rocc, beliefs, tsk,
\* sk_pacing_rate, rs, ev and calls belong to the connection Observed
NULL == 0
Conns == {1, 2}
Observed == 1

\* the private area of a socket before rocc_init: the stack hands it over
\* zeroed (pc "closed")
ClosedSock ==
    [pc |-> "closed", intervals |-> NULL, beliefs |-> NULL, rocc_id |-> 0, reg |-> 0]

\* struct rocc_data in a zeroed private area: no interval buffer
ZeroRocc ==
    [intervals |-> << >>,
     intervals_head |-> 0,
     min_rtt_us |-> 0,
     last_update_tstamp |-> 0,
     last_timeout_tstamp |-> 0,
     last_timeout_minc |-> 0,
     last_timeout_maxc |-> 0,
     state |-> SLOW_START]

\* kzalloc: the address of a buffer that is not in use (the lowest free one)
kzalloc(h) ==
    CHOOSE a \in 1 .. Cardinality(h) + 1 :
        a \notin h /\ \A b \in 1 .. a - 1 : b \in h

\* struct rocc_interval as rocc_init leaves it (kzalloc, then the loop)
InitInterval ==
    [start_us |-> 0, pkts_acked |-> 0, pkts_lost |-> 0, app_limited |-> FALSE,
     min_rtt_us |-> U32_MAX, max_rtt_us |-> 0,
     ic_rs_prior_mstamp |-> 0, ic_rs_prior_delivered |-> 0,
     ic_bytes_sent |-> 0, ic_delivered |-> 0, ic_sending_rate |-> 0,
     processed |-> FALSE, invalid |-> TRUE]

\* struct rocc_data after rocc_init
InitRocc ==
    [intervals |-> [i \in 0 .. rocc_num_intervals - 1 |-> InitInterval],
     intervals_head |-> 0,
     min_rtt_us |-> U32_MAX,
     last_update_tstamp |-> 0,
     last_timeout_tstamp |-> 0,
     last_timeout_minc |-> INIT_MIN_C,
     last_timeout_maxc |-> INIT_MAX_C,
     state |-> SLOW_START]

\* struct belief_data after rocc_init
InitBeliefs ==
    [min_c |-> INIT_MIN_C, max_c |-> INIT_MAX_C, min_qdel |-> 0,
     min_c_lambda |-> INIT_MIN_C, last_min_c_lambda |-> INIT_MIN_C]

\* no call has been made yet
NoSample ==
    [delivered |-> 0, interval_us |-> 0, acked_sacked |-> 0, losses |-> 0,
     is_app_limited |-> FALSE, rtt_us |-> 0, prior_mstamp |-> 0,
     prior_delivered |-> 0, prior_in_flight |-> 0]

NoEvent ==
    [kind |-> "init", tick |-> FALSE, timeout |-> FALSE, loss_mode |-> FALSE,
     alpha_rate |-> 0, new_min_c |-> INIT_MIN_C, new_max_c |-> INIT_MAX_C,
     max_c_lower_clamp |-> 0, timeout_minc |-> FALSE, timeout_maxc |-> FALSE,
     new_min_c_lambda |-> INIT_MIN_C, delivered_1rtt_ago |-> 0, folded |-> {},
     div0 |-> FALSE]

rocc_get_mss(t) == t.mss_cache

get_loss_mode(pkts_acked, pkts_lost) ==
    pkts_lost * 1024 > U32(pkts_acked + pkts_lost) * rocc_loss_thresh

\* a / b in C; a zero divisor is recorded by the callers (no quotient exists)
Div(a, b) == IF b = 0 THEN 0 ELSE a \div b

\* (rocc_alpha_segments * mss * U64_S_TO_US) / min_rtt_us, bytes per second
alpha_rate_of(mss, min_rtt_us) ==
    MulDiv(U32(rocc_alpha_segments * mss), U64_S_TO_US, min_rtt_us)

\* bool timeout = time_since_last_timeout > rocc_timeout_period * min_rtt_us
is_timeout(r) ==
    LET now == r.intervals[Slot(r.intervals_head)].start_us
    IN  tcp_stamp_us_delta(now, r.last_timeout_tstamp)
            > MulU32(rocc_timeout_period, r.min_rtt_us)

\* --------------------------------------------------------- update_beliefs
\* this_min_rtt_us > rtprop + max_jitter, with max_jitter = rtprop
high_delay(rtt_us, rtprop) == rtt_us > U32(rtprop + rtprop)

\* UPDATE QDEL BELIEFS
qdel_belief(r) ==
    LET this_interval == r.intervals[Slot(r.intervals_head)]
        rtprop == r.min_rtt_us
    IN  IF high_delay(this_interval.min_rtt_us, rtprop) /\ ~this_interval.invalid
        THEN U32(this_interval.min_rtt_us - U32(rtprop + rtprop))
        ELSE 0

\* a lower bound that forgets the jitter allowance on the wrong side
bound_without_allowance(cum_pkts_acked, window, max_jitter) ==
    IF U32(window - max_jitter) = 0 THEN 0
    ELSE MulDiv(U64_S_TO_US, cum_pkts_acked, U32(window - max_jitter))

\* (U64_S_TO_US * cum_pkts_acked) / (window + max_jitter)
min_c_bound(cum_pkts_acked, window, max_jitter) ==
    IF U32(window + max_jitter) = 0 THEN 0
    ELSE MulDiv(U64_S_TO_US, cum_pkts_acked, U32(window + max_jitter))

\* (U64_S_TO_US * cum_pkts_acked) / (window - max_jitter)
max_c_bound(cum_pkts_acked, window, max_jitter) ==
    IF U32(window - max_jitter) = 0 THEN 0
    ELSE MulDiv(U64_S_TO_US, cum_pkts_acked, U32(window - max_jitter))

\* a loop that tightens new_max_c on every utilized interval, the first
\* included, whatever the intervals after it showed
link_rate_scan_eager(r, st, acc) ==
    LET RECURSIVE scan(_, _)
        scan(i, a) ==
            IF i >= rocc_num_intervals THEN a
            ELSE
            LET et == r.intervals_head
                this_interval == r.intervals[Slot(et + i)]
                max_jitter == r.min_rtt_us
                window == tcp_stamp_us_delta(r.intervals[Slot(et)].start_us,
                                             this_interval.start_us)
                this_utilized ==
                    \/ get_loss_mode(this_interval.pkts_acked,
                                     this_interval.pkts_lost)
                    \/ high_delay(this_interval.min_rtt_us, r.min_rtt_us)
                cum_utilized == IF i = 1 THEN this_utilized
                                ELSE a.cum_utilized /\ this_utilized
                cum_pkts_acked == U32(a.cum_pkts_acked + this_interval.pkts_acked)
            IN  IF this_interval.invalid THEN a
                ELSE scan(i + 1,
                    [cum_utilized |-> cum_utilized,
                     cum_pkts_acked |-> cum_pkts_acked,
                     new_min_c |-> max_t(a.new_min_c,
                                         min_c_bound(cum_pkts_acked, window,
                                                     max_jitter)),
                     new_max_c |-> IF this_utilized
                                   THEN min_t(a.new_max_c,
                                              max_c_bound(cum_pkts_acked, window,
                                                          max_jitter))
                                   ELSE a.new_max_c,
                     scanned |-> i,
                     div0 |-> a.div0])
    IN  scan(st, acc)

\* the loop over st = 1 .. rocc_num_intervals - 1, from iteration st on
RECURSIVE link_rate_scan(_, _, _)
link_rate_scan(r, st, acc) ==
    IF st >= rocc_num_intervals THEN acc
    ELSE
    LET et == r.intervals_head
        this_interval == r.intervals[Slot(et + st)]
        max_jitter == r.min_rtt_us
        window == tcp_stamp_us_delta(r.intervals[Slot(et)].start_us,
                                     this_interval.start_us)
        this_utilized ==
            \/ get_loss_mode(this_interval.pkts_acked, this_interval.pkts_lost)
            \/ high_delay(this_interval.min_rtt_us, r.min_rtt_us)
        cum_utilized == IF st = 1 THEN this_utilized
                        ELSE acc.cum_utilized /\ this_utilized
        cum_pkts_acked == U32(acc.cum_pkts_acked + this_interval.pkts_acked)
        tighten == cum_utilized /\ st > 1
    IN  IF this_interval.invalid THEN acc
        ELSE link_rate_scan(r, st + 1,
            [cum_utilized |-> cum_utilized,
             cum_pkts_acked |-> cum_pkts_acked,
             new_min_c |-> max_t(acc.new_min_c,
                                 min_c_bound(cum_pkts_acked, window, max_jitter)),
             new_max_c |-> IF tighten
                           THEN min_t(acc.new_max_c,
                                      max_c_bound(cum_pkts_acked, window, max_jitter))
                           ELSE acc.new_max_c,
             scanned |-> st,
             div0 |-> \/ acc.div0
                      \/ U32(window + max_jitter) = 0
                      \/ (tighten /\ U32(window - max_jitter) = 0)])

link_rate_beliefs(r) ==
    link_rate_scan(r, 1,
        [cum_utilized |-> FALSE, cum_pkts_acked |-> 0, new_min_c |-> INIT_MIN_C,
         new_max_c |-> INIT_MAX_C, scanned |-> 0, div0 |-> FALSE])

\* the decisions of the timeout branch
timeout_minc_of(r, new_min_c, new_max_c) ==
    LET minc_changed == new_min_c > r.last_timeout_minc
        maxc_changed == new_max_c < r.last_timeout_maxc
        maxc_changed_significantly ==
            (new_max_c * rocc_significant_mult_percent) \div 100 < r.last_timeout_maxc
        beliefs_invalid == new_max_c < new_min_c
        maxc_came_close == maxc_changed /\ beliefs_invalid
    IN  ~minc_changed /\ (maxc_came_close \/ ~maxc_changed_significantly)

timeout_maxc_of(r, new_min_c, new_max_c) ==
    LET minc_changed == new_min_c > r.last_timeout_minc
        maxc_changed == new_max_c < r.last_timeout_maxc
        minc_changed_significantly ==
            new_min_c > (rocc_significant_mult_percent * r.last_timeout_minc) \div 100
        beliefs_invalid == new_max_c < new_min_c
        minc_came_close == minc_changed /\ beliefs_invalid
    IN  ~maxc_changed /\ (minc_came_close \/ ~minc_changed_significantly)

\* a timeout branch whose relaxation allowance doubles max_c
timeout_beliefs_doubling(r, b, new_min_c, new_max_c) ==
    [b EXCEPT
        !.min_c = IF timeout_minc_of(r, new_min_c, new_max_c) THEN new_min_c
                  ELSE max_t(b.min_c, new_min_c),
        !.max_c = IF timeout_maxc_of(r, new_min_c, new_max_c)
                  THEN min_t(b.max_c * 2, new_max_c)
                  ELSE min_t(b.max_c, new_max_c)]

\* if (timeout) { ... }: min_c and max_c before the final clamp
timeout_beliefs(r, b, new_min_c, new_max_c) ==
    [b EXCEPT
        !.min_c = IF timeout_minc_of(r, new_min_c, new_max_c) THEN new_min_c
                  ELSE max_t(b.min_c, new_min_c),
        !.max_c = IF timeout_maxc_of(r, new_min_c, new_max_c)
                  THEN min_t((b.max_c * 3) \div 2, new_max_c)
                  ELSE min_t(b.max_c, new_max_c)]

\* bounds that take the value of the latest scan, whatever they were
latest_scan_beliefs(b, new_min_c, new_max_c) ==
    [b EXCEPT !.min_c = new_min_c, !.max_c = new_max_c]

\* else { ... }: bounds only tighten
no_timeout_beliefs(b, new_min_c, new_max_c) ==
    [b EXCEPT !.min_c = max_t(b.min_c, new_min_c),
              !.max_c = min_t(b.max_c, new_max_c)]

\* u64 max_c_lower_clamp = max_t(u64, INIT_MIN_C, rocc_alpha_rate)
max_c_lower_clamp_of(mss, min_rtt_us) ==
    max_t(INIT_MIN_C, alpha_rate_of(mss, min_rtt_us))

\* an update that ends without the final clamp
no_final_clamp(b, max_c_lower_clamp) == b

\* a final clamp at twice the lower clamp
doubled_clamp(b, max_c_lower_clamp) ==
    [b EXCEPT !.max_c = max_t(b.max_c, max_c_lower_clamp + max_c_lower_clamp)]

\* beliefs->max_c = max_t(u64, beliefs->max_c, max_c_lower_clamp)
final_clamp(b, max_c_lower_clamp) ==
    [b EXCEPT !.max_c = max_t(b.max_c, max_c_lower_clamp)]

\* an update whose timeout bookkeeping records max_c after the final clamp
beliefs_snapshot_after_clamp(r, b, mss, scan, timeout, clamp) ==
    LET now == r.intervals[Slot(r.intervals_head)].start_us
        b1 == [b EXCEPT !.min_qdel = qdel_belief(r)]
        b2 == IF timeout THEN timeout_beliefs(r, b1, scan.new_min_c, scan.new_max_c)
              ELSE no_timeout_beliefs(b1, scan.new_min_c, scan.new_max_c)
        b3 == final_clamp(b2, clamp)
    IN  [beliefs |-> b3,
         last_timeout_tstamp |-> IF timeout THEN now ELSE r.last_timeout_tstamp,
         last_timeout_minc |-> IF timeout THEN b3.min_c ELSE r.last_timeout_minc,
         last_timeout_maxc |-> IF timeout THEN b3.max_c ELSE r.last_timeout_maxc,
         timeout |-> timeout,
         timeout_minc |-> timeout /\ timeout_minc_of(r, scan.new_min_c, scan.new_max_c),
         timeout_maxc |-> timeout /\ timeout_maxc_of(r, scan.new_min_c, scan.new_max_c),
         new_min_c |-> scan.new_min_c,
         new_max_c |-> scan.new_max_c,
         scanned |-> scan.scanned,
         max_c_lower_clamp |-> clamp,
         div0 |-> scan.div0]

\* update_beliefs(sk) after its loop: the new belief record, the timeout
\* bookkeeping and what the call computed on the way
beliefs_after_scan(r, b, mss, scan, timeout, clamp) ==
    LET now == r.intervals[Slot(r.intervals_head)].start_us
        b1 == [b EXCEPT !.min_qdel = qdel_belief(r)]
        b2 == IF timeout THEN timeout_beliefs(r, b1, scan.new_min_c, scan.new_max_c)
              ELSE no_timeout_beliefs(b1, scan.new_min_c, scan.new_max_c)
    IN  [beliefs |-> final_clamp(b2, clamp),
         last_timeout_tstamp |-> IF timeout THEN now ELSE r.last_timeout_tstamp,
         last_timeout_minc |-> IF timeout THEN b2.min_c ELSE r.last_timeout_minc,
         last_timeout_maxc |-> IF timeout THEN b2.max_c ELSE r.last_timeout_maxc,
         timeout |-> timeout,
         timeout_minc |-> timeout /\ timeout_minc_of(r, scan.new_min_c, scan.new_max_c),
         timeout_maxc |-> timeout /\ timeout_maxc_of(r, scan.new_min_c, scan.new_max_c),
         new_min_c |-> scan.new_min_c,
         new_max_c |-> scan.new_max_c,
         scanned |-> scan.scanned,
         max_c_lower_clamp |-> clamp,
         div0 |-> scan.div0]

\* update_beliefs(sk)
update_beliefs(r, b, mss) ==
    beliefs_after_scan(r, b, mss, link_rate_beliefs(r), is_timeout(r),
                       max_c_lower_clamp_of(mss, r.min_rtt_us))

\* ---------------------------------------------------- update_beliefs_send
\* a scan without the gate: every interval is considered
ungated(next_future_interval, delivered_1rtt_ago) == TRUE

\* the gate "if (next_future_interval->ic_delivered > delivered_1rtt_ago)
\* continue;": TRUE when the interval is considered
sent_1rtt_before(next_future_interval, delivered_1rtt_ago) ==
    ~(next_future_interval.ic_delivered > delivered_1rtt_ago)

\* ((this_bytes_sent * U64_S_TO_US) / mss) / (this_interval_length + max_jitter)
min_c_lambda_of(this_interval, next_future_interval, max_jitter, mss) ==
    LET this_bytes_sent ==
            next_future_interval.ic_bytes_sent - this_interval.ic_bytes_sent
        this_interval_length ==
            tcp_stamp_us_delta(next_future_interval.start_us, this_interval.start_us)
    IN  Div(MulDiv(this_bytes_sent, U64_S_TO_US, mss),
            this_interval_length + max_jitter)

\* a loop that also stops at an interval an earlier scan has marked:
\* "if (this_interval->processed) break;" ahead of the marking
send_scan_once(r, mss, st, acc) ==
    LET RECURSIVE scan(_, _)
        scan(i, a) ==
            IF i >= rocc_num_intervals THEN a
            ELSE
            LET et == r.intervals_head
                this_interval == a.intervals[Slot(et + i)]
                next_future_interval == a.intervals[Slot(et + i - 1)]
                delivered_1rtt_ago == r.intervals[Slot(et)].ic_rs_prior_delivered
                max_jitter == r.min_rtt_us
                this_under_utilized ==
                    /\ ~get_loss_mode(this_interval.pkts_acked,
                                      this_interval.pkts_lost)
                    /\ ~high_delay(this_interval.max_rtt_us, r.min_rtt_us)
                cum == a.cum_under_utilized /\ this_under_utilized
                marked == [a.intervals EXCEPT ![Slot(et + i)].processed = TRUE]
            IN  IF this_interval.invalid THEN a
                ELSE IF ~sent_1rtt_before(next_future_interval, delivered_1rtt_ago)
                THEN scan(i + 1, [a EXCEPT !.cum_under_utilized = cum])
                ELSE IF this_interval.processed
                THEN [a EXCEPT !.cum_under_utilized = cum]
                ELSE IF ~cum
                THEN [a EXCEPT !.cum_under_utilized = cum, !.intervals = marked]
                ELSE scan(i + 1,
                    [cum_under_utilized |-> cum,
                     intervals |-> marked,
                     new_min_c_lambda |->
                         max_t(a.new_min_c_lambda,
                               min_c_lambda_of(this_interval, next_future_interval,
                                               max_jitter, mss)),
                     folded |-> a.folded \cup {i},
                     div0 |-> a.div0])
    IN  scan(st, acc)

\* the loop over st = 1 .. rocc_num_intervals - 1, from iteration st on;
\* acc.intervals carries the processed flags the loop sets
RECURSIVE send_scan(_, _, _, _)
send_scan(r, mss, st, acc) ==
    IF st >= rocc_num_intervals THEN acc
    ELSE
    LET et == r.intervals_head
        this_interval == acc.intervals[Slot(et + st)]
        next_future_interval == acc.intervals[Slot(et + st - 1)]
        delivered_1rtt_ago == r.intervals[Slot(et)].ic_rs_prior_delivered
        max_jitter == r.min_rtt_us
        this_under_utilized ==
            /\ ~get_loss_mode(this_interval.pkts_acked, this_interval.pkts_lost)
            /\ ~high_delay(this_interval.max_rtt_us, r.min_rtt_us)
        cum == acc.cum_under_utilized /\ this_under_utilized
        marked == [acc.intervals EXCEPT ![Slot(et + st)].processed = TRUE]
    IN  IF this_interval.invalid THEN acc
        ELSE IF ~sent_1rtt_before(next_future_interval, delivered_1rtt_ago)
        THEN send_scan(r, mss, st + 1, [acc EXCEPT !.cum_under_utilized = cum])
        ELSE IF ~cum
        THEN [acc EXCEPT !.cum_under_utilized = cum, !.intervals = marked]
        ELSE send_scan(r, mss, st + 1,
            [cum_under_utilized |-> cum,
             intervals |-> marked,
             new_min_c_lambda |->
                 max_t(acc.new_min_c_lambda,
                       min_c_lambda_of(this_interval, next_future_interval,
                                       max_jitter, mss)),
             folded |-> acc.folded \cup {st},
             div0 |-> \/ acc.div0
                      \/ mss = 0
                      \/ tcp_stamp_us_delta(next_future_interval.start_us,
                                            this_interval.start_us) + max_jitter = 0])

\* an update rule that takes the latest scan's value, up or down
min_c_lambda_latest(b, new_min_c_lambda, timeout) ==
    IF new_min_c_lambda > b.min_c_lambda
    THEN [b EXCEPT !.last_min_c_lambda = b.min_c_lambda,
                   !.min_c_lambda = new_min_c_lambda]
    ELSE [b EXCEPT !.min_c_lambda = new_min_c_lambda]

\* an update rule whose decay halves min_c_lambda
min_c_lambda_halving(b, new_min_c_lambda, timeout) ==
    IF new_min_c_lambda > b.min_c_lambda
    THEN [b EXCEPT !.last_min_c_lambda = b.min_c_lambda,
                   !.min_c_lambda = new_min_c_lambda]
    ELSE IF timeout
    THEN IF b.min_c_lambda > b.last_min_c_lambda
         THEN [b EXCEPT !.min_c_lambda =
                            max_t(b.last_min_c_lambda, new_min_c_lambda)]
         ELSE [b EXCEPT !.min_c_lambda =
                            max_t(b.min_c_lambda \div 2, new_min_c_lambda)]
    ELSE b

\* an update rule whose decay rounds two thirds of min_c_lambda up
min_c_lambda_rounding_up(b, new_min_c_lambda, timeout) ==
    IF new_min_c_lambda > b.min_c_lambda
    THEN [b EXCEPT !.last_min_c_lambda = b.min_c_lambda,
                   !.min_c_lambda = new_min_c_lambda]
    ELSE IF timeout
    THEN IF b.min_c_lambda > b.last_min_c_lambda
         THEN [b EXCEPT !.min_c_lambda =
                            max_t(b.last_min_c_lambda, new_min_c_lambda)]
         ELSE [b EXCEPT !.min_c_lambda =
                            max_t((2 * b.min_c_lambda + 2) \div 3, new_min_c_lambda)]
    ELSE b

\* the update rule of min_c_lambda after the loop
min_c_lambda_update(b, new_min_c_lambda, timeout) ==
    IF new_min_c_lambda > b.min_c_lambda
    THEN [b EXCEPT !.last_min_c_lambda = b.min_c_lambda,
                   !.min_c_lambda = new_min_c_lambda]
    ELSE IF timeout
    THEN IF b.min_c_lambda > b.last_min_c_lambda
         THEN [b EXCEPT !.min_c_lambda =
                            max_t(b.last_min_c_lambda, new_min_c_lambda)]
         ELSE [b EXCEPT !.min_c_lambda =
                            max_t((2 * b.min_c_lambda) \div 3, new_min_c_lambda)]
    ELSE b

\* update_beliefs_send(sk, rs) after its loop
send_after_scan(r, b, scan, timeout) ==
    [beliefs |-> min_c_lambda_update(b, scan.new_min_c_lambda, timeout),
     intervals |-> scan.intervals,
     new_min_c_lambda |-> scan.new_min_c_lambda,
     delivered_1rtt_ago |-> r.intervals[Slot(r.intervals_head)].ic_rs_prior_delivered,
     folded |-> scan.folded,
     timeout |-> timeout,
     div0 |-> scan.div0]

\* update_beliefs_send(sk, rs)
update_beliefs_send(r, b, mss) ==
    LET head_interval == r.intervals[Slot(r.intervals_head)]
        head_under_utilized ==
            /\ ~get_loss_mode(head_interval.pkts_acked, head_interval.pkts_lost)
            /\ ~high_delay(head_interval.max_rtt_us, r.min_rtt_us)
    IN  send_after_scan(r, b,
            send_scan(r, mss, 1,
                [cum_under_utilized |-> head_under_utilized,
                 intervals |-> r.intervals,
                 new_min_c_lambda |-> INIT_MIN_C,
                 folded |-> {},
                 div0 |-> FALSE]),
            is_timeout(r))

\* ------------------------------------------------------ rocc_process_sample
\* a validity test that looks at the interval length alone
interval_valid(sample) == ~(sample.interval_us < 0)

\* Is rate sample valid?  if (rs->delivered < 0 || rs->interval_us < 0) return;
sample_valid(sample) == ~(sample.delivered < 0 \/ sample.interval_us < 0)

\* an estimate that takes srtt_us as it is stored, eight times the RTT
rtt_of_stored_srtt(srtt_us) == IF srtt_us # 0 THEN max_t(srtt_us, 1) ELSE U32_MAX

\* rtt_us from tsk->srtt_us, U32_MAX when there is no estimate
rtt_of(srtt_us) == IF srtt_us # 0 THEN max_t(srtt_us \div 8, 1) ELSE U32_MAX

\* a condition that lets every call through
any_time_elapsed(timestamp, last_update_tstamp, min_rtt_us) ==
    tcp_stamp_us_delta(timestamp, last_update_tstamp) >= 0

\* the condition of both "Push the buffer" and the rate/cwnd update
period_elapsed(timestamp, last_update_tstamp, min_rtt_us) ==
    tcp_stamp_us_delta(timestamp, last_update_tstamp) >= min_rtt_us

\* a push that moves the head up, onto the slot filled sixteen pushes ago
push_interval_forward(r, t, sample, pacing) ==
    LET head == Slot(r.intervals_head + 1)
    IN  [r EXCEPT
           !.intervals_head = head,
           !.intervals[head] =
               [start_us |-> t.tcp_mstamp,
                pkts_acked |-> U32(sample.acked_sacked),
                pkts_lost |-> U32(sample.losses),
                app_limited |-> sample.is_app_limited,
                min_rtt_us |-> U32(sample.rtt_us),
                max_rtt_us |-> U32(sample.rtt_us),
                ic_rs_prior_mstamp |-> sample.prior_mstamp,
                ic_rs_prior_delivered |-> U32(sample.prior_delivered),
                ic_bytes_sent |-> t.bytes_sent,
                ic_delivered |-> t.delivered,
                ic_sending_rate |-> pacing \div rocc_get_mss(t),
                processed |-> FALSE,
                invalid |-> FALSE]]

\* Push the buffer: a new head slot stamped with the sample
push_interval(r, t, sample, pacing) ==
    LET head == Slot(r.intervals_head - 1)
    IN  [r EXCEPT
           !.intervals_head = head,
           !.intervals[head] =
               [start_us |-> t.tcp_mstamp,
                pkts_acked |-> U32(sample.acked_sacked),
                pkts_lost |-> U32(sample.losses),
                app_limited |-> sample.is_app_limited,
                min_rtt_us |-> U32(sample.rtt_us),
                max_rtt_us |-> U32(sample.rtt_us),
                ic_rs_prior_mstamp |-> sample.prior_mstamp,
                ic_rs_prior_delivered |-> U32(sample.prior_delivered),
                ic_bytes_sent |-> t.bytes_sent,
                ic_delivered |-> t.delivered,
                ic_sending_rate |-> pacing \div rocc_get_mss(t),
                processed |-> FALSE,
                invalid |-> FALSE]]

\* an accumulation that goes into the slot behind the head
merge_behind_head(r, sample) ==
    LET prev == Slot(r.intervals_head + 1)
        cur == r.intervals[prev]
    IN  [r EXCEPT
           !.intervals[prev] =
               [cur EXCEPT
                  !.pkts_acked = U32(@ + sample.acked_sacked),
                  !.pkts_lost = U32(@ + sample.losses),
                  !.app_limited = @ \/ sample.is_app_limited,
                  !.min_rtt_us = min_t(U32(sample.rtt_us), @),
                  !.max_rtt_us = max_t(U32(sample.rtt_us), @)]]

\* the else branch: accumulate into the head slot
merge_interval(r, sample) ==
    LET head == r.intervals_head
        cur == r.intervals[head]
    IN  [r EXCEPT
           !.intervals[head] =
               [cur EXCEPT
                  !.pkts_acked = U32(@ + sample.acked_sacked),
                  !.pkts_lost = U32(@ + sample.losses),
                  !.app_limited = @ \/ sample.is_app_limited,
                  !.min_rtt_us = min_t(U32(sample.rtt_us), @),
                  !.max_rtt_us = max_t(U32(sample.rtt_us), @)]]

\* Find the statistics from the last `hist` seconds: the loop from index i on
\* (start_us + hist_us < timestamp is a u64 comparison, it does not wrap)
RECURSIVE windowed_totals(_, _, _, _, _)
windowed_totals(r, hist_us, timestamp, i, acc) ==
    IF i >= rocc_num_intervals THEN acc
    ELSE
    LET slot == r.intervals[Slot(r.intervals_head + i)]
        sum == [pkts_acked |-> U32(acc.pkts_acked + slot.pkts_acked),
                pkts_lost |-> U32(acc.pkts_lost + slot.pkts_lost),
                app_limited |-> acc.app_limited \/ slot.app_limited,
                scanned |-> i + 1]
    IN  IF slot.start_us < timestamp - hist_us THEN sum
        ELSE windowed_totals(r, hist_us, timestamp, i + 1, sum)

\* a state that no loss ever changes
state_kept(state, loss_mode) == state

\* a state update that follows the current loss mode in both directions
state_follows_loss_mode(state, loss_mode) ==
    IF loss_mode THEN CONG_AVOID ELSE SLOW_START

\* if (loss_mode) rocc->state = CONG_AVOID;
next_state(state, loss_mode) == IF loss_mode THEN CONG_AVOID ELSE state

\* a decision that applies the SLOW_START law in every state
slow_start_law(state, b, mss, min_rtt_us, latest_inflight_segments, pacing, alpha_rate) ==
    [snd_cwnd |-> U32(MulDiv(2 * b.max_c, 2 * min_rtt_us, U64_S_TO_US)),
     sk_pacing_rate |-> IF b.min_qdel > 0 THEN (b.min_c * mss) \div 2
                        ELSE 2 * b.min_c * mss]

\* a CONG_AVOID law whose drain branch recomputes the rate as well
drain_with_new_rate(state, b, mss, min_rtt_us, latest_inflight_segments, pacing, alpha_rate) ==
    LET cwnd == U32(MulDiv(2 * b.max_c, 2 * min_rtt_us, U64_S_TO_US))
    IN  IF state = SLOW_START
        THEN [snd_cwnd |-> cwnd,
              sk_pacing_rate |-> IF b.min_qdel > 0 THEN (b.min_c * mss) \div 2
                                 ELSE 2 * b.min_c * mss]
        ELSE IF latest_inflight_segments > 2 * rocc_alpha_segments
        THEN [snd_cwnd |-> rocc_alpha_segments,
              sk_pacing_rate |-> 2 * b.min_c_lambda * mss + alpha_rate]
        ELSE [snd_cwnd |-> cwnd,
              sk_pacing_rate |-> 2 * b.min_c_lambda * mss + alpha_rate]

\* a SLOW_START law that throttles when no queue is seen and probes when
\* one is
throttle_without_queue(state, b, mss, min_rtt_us, latest_inflight_segments, pacing, alpha_rate) ==
    LET cwnd == U32(MulDiv(2 * b.max_c, 2 * min_rtt_us, U64_S_TO_US))
    IN  IF state = SLOW_START
        THEN [snd_cwnd |-> cwnd,
              sk_pacing_rate |-> IF b.min_qdel > 0 THEN 2 * b.min_c * mss
                                 ELSE (b.min_c * mss) \div 2]
        ELSE IF latest_inflight_segments > 2 * rocc_alpha_segments
        THEN [snd_cwnd |-> rocc_alpha_segments, sk_pacing_rate |-> pacing]
        ELSE [snd_cwnd |-> cwnd,
              sk_pacing_rate |-> 2 * b.min_c_lambda * mss + alpha_rate]

\* the window and the rate of a decision tick, before the lower bound clamps
control_law(state, b, mss, min_rtt_us, latest_inflight_segments, pacing, alpha_rate) ==
    LET cwnd == U32(MulDiv(2 * b.max_c, 2 * min_rtt_us, U64_S_TO_US))
    IN  IF state = SLOW_START
        THEN [snd_cwnd |-> cwnd,
              sk_pacing_rate |-> IF b.min_qdel > 0 THEN (b.min_c * mss) \div 2
                                 ELSE 2 * b.min_c * mss]
        ELSE IF latest_inflight_segments > 2 * rocc_alpha_segments
        THEN [snd_cwnd |-> rocc_alpha_segments, sk_pacing_rate |-> pacing]
        ELSE [snd_cwnd |-> cwnd,
              sk_pacing_rate |-> 2 * b.min_c_lambda * mss + alpha_rate]

\* a decision emitted without the lower bound clamps
unclamped_decision(d, alpha_rate) == d

\* lower bound clamps
lower_bound_clamps(d, alpha_rate) ==
    [snd_cwnd |-> max_t(d.snd_cwnd, rocc_alpha_segments),
     sk_pacing_rate |-> max_t(d.sk_pacing_rate, alpha_rate)]

\* what the belief updates of a call computed (observation only)
NoBeliefUpdate ==
    [timeout |-> FALSE, new_min_c |-> INIT_MIN_C, new_max_c |-> INIT_MAX_C,
     max_c_lower_clamp |-> 0, timeout_minc |-> FALSE, timeout_maxc |-> FALSE,
     new_min_c_lambda |-> INIT_MIN_C, delivered_1rtt_ago |-> 0, folded |-> {},
     div0 |-> FALSE]

\* from "Find the statistics from the last `hist` seconds" to the end of the
\* function: r and b are the controller after the interval and belief updates
decide(r, b, pacing, t, sample, pushed, obs, loss_mode, rocc_alpha_rate) ==
    LET timestamp == t.tcp_mstamp
        state == next_state(r.state, loss_mode)
        tick == period_elapsed(timestamp, r.last_update_tstamp, r.min_rtt_us)
        d == lower_bound_clamps(
                 control_law(state, b, rocc_get_mss(t), r.min_rtt_us,
                             sample.prior_in_flight, pacing, rocc_alpha_rate),
                 rocc_alpha_rate)
    IN  [rocc |-> [r EXCEPT !.state = state,
                            !.last_update_tstamp = IF tick THEN timestamp ELSE @],
         beliefs |-> b,
         tsk |-> IF tick THEN [t EXCEPT !.snd_cwnd = d.snd_cwnd] ELSE t,
         sk_pacing_rate |-> IF tick THEN d.sk_pacing_rate ELSE pacing,
         ev |-> [kind |-> IF pushed THEN "push" ELSE "merge",
                 tick |-> tick,
                 loss_mode |-> loss_mode,
                 alpha_rate |-> rocc_alpha_rate,
                 timeout |-> obs.timeout,
                 new_min_c |-> obs.new_min_c,
                 new_max_c |-> obs.new_max_c,
                 max_c_lower_clamp |-> obs.max_c_lower_clamp,
                 timeout_minc |-> obs.timeout_minc,
                 timeout_maxc |-> obs.timeout_maxc,
                 new_min_c_lambda |-> obs.new_min_c_lambda,
                 delivered_1rtt_ago |-> obs.delivered_1rtt_ago,
                 folded |-> obs.folded,
                 div0 |-> obs.div0]]

windowed_loss_mode(r, hist_us, timestamp) ==
    LET mode(totals) == get_loss_mode(totals.pkts_acked, totals.pkts_lost)
    IN  mode(windowed_totals(r, hist_us, timestamp, 0,
                 [pkts_acked |-> 0, pkts_lost |-> 0, app_limited |-> FALSE,
                  scanned |-> 0]))

\* belief updates that also record the time of the update as the time of the
\* last decision
after_update_beliefs_stamped(r, ubs, ub) ==
    [rocc |-> [r EXCEPT !.last_timeout_tstamp = ub.last_timeout_tstamp,
                        !.last_timeout_minc = ub.last_timeout_minc,
                        !.last_timeout_maxc = ub.last_timeout_maxc,
                        !.last_update_tstamp =
                            r.intervals[Slot(r.intervals_head)].start_us],
     beliefs |-> ub.beliefs,
     obs |-> [timeout |-> ub.timeout,
              new_min_c |-> ub.new_min_c,
              new_max_c |-> ub.new_max_c,
              max_c_lower_clamp |-> ub.max_c_lower_clamp,
              timeout_minc |-> ub.timeout_minc,
              timeout_maxc |-> ub.timeout_maxc,
              new_min_c_lambda |-> ubs.new_min_c_lambda,
              delivered_1rtt_ago |-> ubs.delivered_1rtt_ago,
              folded |-> ubs.folded,
              div0 |-> ubs.div0 \/ ub.div0]]

\* the calls update_beliefs_send(sk, rs); update_beliefs(sk); of the push branch
after_update_beliefs(r, ubs, ub) ==
    [rocc |-> [r EXCEPT !.last_timeout_tstamp = ub.last_timeout_tstamp,
                        !.last_timeout_minc = ub.last_timeout_minc,
                        !.last_timeout_maxc = ub.last_timeout_maxc],
     beliefs |-> ub.beliefs,
     obs |-> [timeout |-> ub.timeout,
              new_min_c |-> ub.new_min_c,
              new_max_c |-> ub.new_max_c,
              max_c_lower_clamp |-> ub.max_c_lower_clamp,
              timeout_minc |-> ub.timeout_minc,
              timeout_maxc |-> ub.timeout_maxc,
              new_min_c_lambda |-> ubs.new_min_c_lambda,
              delivered_1rtt_ago |-> ubs.delivered_1rtt_ago,
              folded |-> ubs.folded,
              div0 |-> ubs.div0 \/ ub.div0]]

after_update_beliefs_send(r, mss, ubs) ==
    LET then(r2) == after_update_beliefs(r2, ubs, update_beliefs(r2, ubs.beliefs, mss))
    IN  then([r EXCEPT !.intervals = ubs.intervals])

\* the two calls in the other order, update_beliefs(sk) first: the send
\* update then reads the timeout bookkeeping the first call has just written
update_beliefs_first(r, b, mss) ==
    LET then(ub) ==
            LET r1 == [r EXCEPT !.last_timeout_tstamp = ub.last_timeout_tstamp,
                                !.last_timeout_minc = ub.last_timeout_minc,
                                !.last_timeout_maxc = ub.last_timeout_maxc]
                last(ubs) ==
                    [rocc |-> [r1 EXCEPT !.intervals = ubs.intervals],
                     beliefs |-> ubs.beliefs,
                     obs |-> [timeout |-> ub.timeout,
                              new_min_c |-> ub.new_min_c,
                              new_max_c |-> ub.new_max_c,
                              max_c_lower_clamp |-> ub.max_c_lower_clamp,
                              timeout_minc |-> ub.timeout_minc,
                              timeout_maxc |-> ub.timeout_maxc,
                              new_min_c_lambda |-> ubs.new_min_c_lambda,
                              delivered_1rtt_ago |-> ubs.delivered_1rtt_ago,
                              folded |-> ubs.folded,
                              div0 |-> ubs.div0 \/ ub.div0]]
            IN  last(update_beliefs_send(r1, ub.beliefs, mss))
    IN  then(update_beliefs(r, b, mss))

update_all_beliefs(r, b, mss) ==
    after_update_beliefs_send(r, mss, update_beliefs_send(r, b, mss))

\* an accepted sample: the controller, the socket and the rate after the call
accepted_sample(r, b, pacing, t, sample) ==
    LET mss == rocc_get_mss(t)
        rtt_us == rtt_of(t.srtt_us)
        min_rtt_us == IF rtt_us < r.min_rtt_us THEN rtt_us ELSE r.min_rtt_us
        hist_us == IF min_rtt_us = U32_MAX THEN U32_MAX
                   ELSE MulU32(rocc_history_periods, min_rtt_us)
        timestamp == t.tcp_mstamp
        pushed == period_elapsed(timestamp, r.last_update_tstamp, min_rtt_us)
        r0 == [r EXCEPT !.min_rtt_us = min_rtt_us]
        rest(u) == decide(u.rocc, u.beliefs, pacing, t, sample, pushed, u.obs,
                          windowed_loss_mode(u.rocc, hist_us, timestamp),
                          alpha_rate_of(mss, min_rtt_us))
    IN  IF pushed
        THEN rest(update_all_beliefs(push_interval(r0, t, sample, pacing), b, mss))
        ELSE rest([rocc |-> merge_interval(r0, sample), beliefs |-> b,
                   obs |-> NoBeliefUpdate])

\* was the rocc struct fully inited: return (rocc && rocc->intervals);
rocc_valid(sock) == sock.intervals # NULL

\* rocc_process_sample from "Is rate sample valid?" on
process_valid_rocc(t, sample) ==
    IF ~sample_valid(sample)
    THEN /\ UNCHANGED <<rocc, beliefs, sk_pacing_rate>>
         /\ tsk' = t
         /\ rs' = sample
         /\ ev' = [NoEvent EXCEPT !.kind = "reject"]
         /\ calls' = [calls EXCEPT !.rejected = @ + 1]
    ELSE \E out \in {accepted_sample(rocc, beliefs, sk_pacing_rate, t, sample)} :
         /\ rocc' = out.rocc
         /\ beliefs' = out.beliefs
         /\ tsk' = out.tsk
         /\ sk_pacing_rate' = out.sk_pacing_rate
         /\ rs' = sample
         /\ ev' = out.ev
         /\ calls' = [calls EXCEPT !.accepted = @ + 1]

\* a handler that answers an unallocated controller with the minimum window
process_sample_with_fallback(t, sample) ==
    /\ UNCHANGED <<id, socks, heap>>
    /\ IF ~rocc_valid(socks[Observed])
       THEN /\ UNCHANGED <<rocc, beliefs, sk_pacing_rate>>
            /\ tsk' = [t EXCEPT !.snd_cwnd = rocc_alpha_segments]
            /\ rs' = sample
            /\ ev' = [NoEvent EXCEPT !.kind = "uninit"]
            /\ calls' = [calls EXCEPT !.rejected = @ + 1]
       ELSE process_valid_rocc(t, sample)

\* rocc_process_sample(sk, rs) with the socket fields t at the time of the call
rocc_process_sample(t, sample) ==
    /\ UNCHANGED <<id, socks, heap>>
    /\ IF ~rocc_valid(socks[Observed])
       THEN /\ UNCHANGED <<rocc, beliefs, sk_pacing_rate>>
            /\ tsk' = t
            /\ rs' = sample
            /\ ev' = [NoEvent EXCEPT !.kind = "uninit"]
            /\ calls' = [calls EXCEPT !.rejected = @ + 1]
       ELSE process_valid_rocc(t, sample)

\* ------------------------------------------------------------ environment
\* what the transport stack hands to the controller: bounded input sets
MaxCalls == 3

MssValues == {88, 1448}
\* tcp_mstamp when the connection is set up
StartTimes == {1000000}
\* time between two calls, microseconds
Dts == {3000, 20000, 100000}
\* tsk->srtt_us (8 * smoothed RTT): 0 while there is no estimate, then the
\* estimate stays or falls
SrttsAfter ==
    [srtt_us \in {0, 160000, 80000} |->
        IF srtt_us = 0 THEN {0, 160000}
        ELSE IF srtt_us = 160000 THEN {160000, 80000}
        ELSE {80000}]

\* one ack's worth of measurements; lag: how many packets were delivered
\* between the sending of the acked packet and the previous call
SampleKinds ==
    { [acked_sacked |-> 500, losses |-> 0, rtt_us |-> 20000, is_app_limited |-> FALSE,
       prior_in_flight |-> 4, sent |-> 500, lag |-> 0],
      [acked_sacked |-> 500, losses |-> 0, rtt_us |-> 20000, is_app_limited |-> TRUE,
       prior_in_flight |-> 4, sent |-> 300, lag |-> 500],
      [acked_sacked |-> 500, losses |-> 50, rtt_us |-> 20000, is_app_limited |-> FALSE,
       prior_in_flight |-> 600, sent |-> 500, lag |-> 500],
      [acked_sacked |-> 500, losses |-> 0, rtt_us |-> 50000, is_app_limited |-> FALSE,
       prior_in_flight |-> 600, sent |-> 100, lag |-> 500] }

\* tcp_rate_gen marks a sample invalid with -1 in delivered and interval_us
\* (nothing newly delivered) or in interval_us alone (interval too short)
InvalidKinds == {"nothing_delivered", "short_interval", "neg_delivered"}

\* sk->sk_pacing_rate before the controller first writes it: ~0UL (no limit),
\* here the largest representable value
SK_PACING_UNLIMITED == TLC_INT_MAX
\* tsk->snd_cwnd before the controller first writes it
TCP_INIT_CWND == 10

\* the connection Observed right after rocc_init, the first to be set up
OpenSock ==
    [pc |-> "open", intervals |-> 1, beliefs |-> 2, rocc_id |-> 1, reg |-> 0]

InitWith(start_times) ==
    /\ id = 1
    /\ socks = [c \in Conns |-> IF c = Observed THEN OpenSock ELSE ClosedSock]
    /\ heap = {1, 2}
    /\ rocc = InitRocc
    /\ beliefs = InitBeliefs
    /\ \E mss \in MssValues, t0 \in start_times :
           tsk = [srtt_us |-> 0, tcp_mstamp |-> t0, bytes_sent |-> 0, delivered |-> 0,
                  mss_cache |-> mss, snd_cwnd |-> TCP_INIT_CWND]
    /\ sk_pacing_rate = SK_PACING_UNLIMITED
    /\ rs = NoSample
    /\ ev = NoEvent
    /\ calls = [accepted |-> 0, rejected |-> 0]

Init == InitWith(StartTimes)

\* the socket at the time of a call that delivers a valid sample
SocketAt(dt, srtt_us, kind) ==
    [tsk EXCEPT !.tcp_mstamp = @ + dt,
                !.srtt_us = srtt_us,
                !.bytes_sent = @ + kind.sent * tsk.mss_cache,
                !.delivered = @ + kind.acked_sacked]

\* the valid rate sample of that call
SampleOf(dt, kind) ==
    LET prior_delivered == max_t(tsk.delivered - kind.lag, 0)
    IN  [delivered |-> tsk.delivered + kind.acked_sacked - prior_delivered,
         interval_us |-> dt,
         acked_sacked |-> kind.acked_sacked,
         losses |-> kind.losses,
         is_app_limited |-> kind.is_app_limited,
         rtt_us |-> kind.rtt_us,
         prior_mstamp |-> tsk.tcp_mstamp,
         prior_delivered |-> prior_delivered,
         prior_in_flight |-> kind.prior_in_flight]

\* a sample tcp_rate_gen marked invalid
InvalidSample(invalid_kind) ==
    [delivered |-> IF invalid_kind = "short_interval" THEN 1 ELSE -1,
     interval_us |-> IF invalid_kind = "neg_delivered" THEN 1 ELSE -1,
     acked_sacked |-> 1, losses |-> 1, is_app_limited |-> FALSE, rtt_us |-> -1,
     prior_mstamp |-> 0, prior_delivered |-> 0, prior_in_flight |-> 1]

\* the cong_control hook called with a valid sample
ValidSample(dts, srtts) ==
    /\ calls.accepted + calls.rejected < MaxCalls
    /\ \E dt \in dts, srtt_us \in srtts, kind \in SampleKinds :
           rocc_process_sample(SocketAt(dt, srtt_us, kind), SampleOf(dt, kind))

\* the cong_control hook called with an invalid sample
RejectedSample ==
    /\ calls.accepted + calls.rejected < MaxCalls
    /\ \E invalid_kind \in InvalidKinds :
           rocc_process_sample(tsk, InvalidSample(invalid_kind))

Next ==
    \/ ValidSample(Dts, SrttsAfter[tsk.srtt_us])
    \/ RejectedSample

Spec == Init /\ [][Next]_vars

\* Scenario C: a connection on which no RTT estimate ever arrives (srtt_us
\* stays 0).  The clock starts either well inside a 32-bit period or shortly
\* before its low 32 bits read all ones.
StartTimesC == {1000000, U32_MAX - 23000}

InitC == InitWith(StartTimesC)

NextC ==
    \/ ValidSample(Dts, {0})
    \/ RejectedSample

SpecC == InitC /\ [][NextC]_vars

\* Scenario W: as scenario C (no RTT estimate ever arrives), and the stack may
\* also stay silent for a whole 32-bit period less one microsecond before
\* the next sample
UnknownRttSample ==
    /\ calls.accepted + calls.rejected < MaxCalls
    /\ \E dt \in {3000, 20000, U32_MAX}, kind \in SampleKinds :
           /\ tsk.tcp_mstamp <= TLC_INT_MAX - dt
           /\ rocc_process_sample(SocketAt(dt, 0, kind), SampleOf(dt, kind))

NextW == UnknownRttSample

SpecW == InitC /\ [][NextW]_vars

\* Scenarios A and B: the RTT estimate is 10 ms from the first call on
\* (srtt_us = 8 * 10000) and one valid sample arrives every 10 ms, acking 10
\* packets with sample RTT 10 ms; in scenario A no packet is lost, in
\* scenario B one packet is lost per sample (1 * 1024 > (10 + 1) * 64)
MaxPeriods == 42

ScenarioKinds(losses) ==
    { [acked_sacked |-> 10, losses |-> losses, rtt_us |-> 10000,
       is_app_limited |-> FALSE, prior_in_flight |-> in_flight, sent |-> 10,
       lag |-> 10] : in_flight \in {4, 600} }

ScenarioSample(losses) ==
    /\ calls.accepted < MaxPeriods
    /\ \E kind \in ScenarioKinds(losses) :
           rocc_process_sample(SocketAt(10000, 8 * 10000, kind),
                               SampleOf(10000, kind))

NextA == ScenarioSample(0)

SpecA == Init /\ [][NextA]_vars

NextB == ScenarioSample(1)

SpecB == Init /\ [][NextB]_vars

\* Scenario D: as scenarios A and B, but the path loses one packet per period
\* for at most MaxLossPeriods periods at the start of the connection and
\* none afterwards
MaxLossPeriods == 4

FadingLossSample ==
    /\ calls.accepted < MaxPeriods
    /\ \E losses \in {0, 1} :
           /\ losses = 1 =>
                  /\ calls.accepted < MaxLossPeriods
                  /\ \/ calls.accepted = 0
                     \/ rocc.intervals[Slot(rocc.intervals_head)].pkts_lost > 0
           /\ \E kind \in ScenarioKinds(losses) :
                  rocc_process_sample(SocketAt(10000, 8 * 10000, kind),
                                      SampleOf(10000, kind))

NextD == FadingLossSample

SpecD == Init /\ [][NextD]_vars

\* Scenario S: as scenario A (RTT 10 ms, one sample per period, 10 packets
\* acknowledged), but the sender sends 10 or 20 segments per period while it
\* ramps up (the first MaxRampPeriods periods) and 20 afterwards; from some
\* period after the ramp on, the path loses one packet in every period
MaxRampPeriods == 4

SendKinds(sent, losses) ==
    [acked_sacked |-> 10, losses |-> losses, rtt_us |-> 10000,
     is_app_limited |-> FALSE, prior_in_flight |-> 4, sent |-> sent, lag |-> 10]

RampSample ==
    /\ calls.accepted < MaxPeriods
    /\ \E sent \in {10, 20}, losses \in {0, 1} :
           /\ sent = 10 => calls.accepted < MaxRampPeriods
           /\ losses = 1 => calls.accepted >= MaxRampPeriods
           /\ losses = 0 =>
                  rocc.intervals[Slot(rocc.intervals_head)].pkts_lost = 0
           /\ rocc_process_sample(
                  SocketAt(10000, 8 * 10000, SendKinds(sent, losses)),
                  SampleOf(10000, SendKinds(sent, losses)))

NextS == RampSample

SpecS == Init /\ [][NextS]_vars

\* Scenario F: as scenario A on a fast path: 2100 segments are sent and
\* acknowledged in every 10 ms period, none is lost
FastKinds ==
    { [acked_sacked |-> 2100, losses |-> 0, rtt_us |-> 10000,
       is_app_limited |-> FALSE, prior_in_flight |-> in_flight, sent |-> 2100,
       lag |-> 2100] : in_flight \in {4, 600} }

FastSample ==
    /\ calls.accepted < MaxPeriods
    /\ \E kind \in FastKinds :
           rocc_process_sample(SocketAt(10000, 8 * 10000, kind),
                               SampleOf(10000, kind))

NextF == FastSample

SpecF == Init /\ [][NextF]_vars

\* Scenario I: as scenarios A and B (RTT 10 ms, a period or more between
\* samples, with or without loss), on a connection that may also fall idle
\* for a little less than a whole 32-bit period of the microsecond clock
IdleGaps == {U32_MOD - 10000, U32_MOD - 5000}

IdleSample ==
    /\ calls.accepted + calls.rejected < MaxCalls
    /\ \E dt \in {10000} \cup IdleGaps, losses \in {0, 1} :
           /\ tsk.tcp_mstamp <= TLC_INT_MAX - dt
           /\ \E kind \in ScenarioKinds(losses) :
                  rocc_process_sample(SocketAt(dt, 8 * 10000, kind),
                                      SampleOf(dt, kind))

NextI == IdleSample

SpecI == Init /\ [][NextI]_vars

\* ------------------------------------------------ the simple AIMD variant
\* tcp_aitd_combad_rm.c: the same interval history and the same cong_control
\* hook, a window rule keyed on the sequence number of the last decrease.
\* In the specification of this variant rocc holds its struct rocc_data, tsk
\* also holds snd_nxt and (for the environment) the highest acknowledged
\* sequence number snd_una, and beliefs, id, socks and heap are not used.
aitd_rocc_min_cwnd == 2

\* rocc_init of the variant
aitd_rocc_init(snd_nxt) ==
    [intervals |-> [i \in 0..rocc_num_intervals_mask |->
                       [start_us |-> 0, pkts_acked |-> 0, pkts_lost |-> 0,
                        app_limited |-> FALSE]],
     intervals_head |-> 0,
     min_rtt_us |-> U32_MAX,
     id |-> 1,
     last_decrease_seq |-> snd_nxt,
     last_update_tstamp |-> 0,
     loss_happened |-> FALSE]

\* after(seq1, seq2): (s32)(seq2 - seq1) < 0 on a word of the model's width
aitd_after(seq1, seq2) == U32(seq2 - seq1 + U32_MOD) >= U32_MOD \div 2

\* rtt_us, and min_rtt_us after the call
aitd_min_rtt_us(r, t) ==
    min_t(r.min_rtt_us,
          IF t.srtt_us # 0 THEN max_t(t.srtt_us \div 8, 1) ELSE U32_MAX)

aitd_hist_us(min_rtt_us) ==
    IF min_rtt_us = U32_MAX THEN U32_MAX ELSE U32(2 * min_rtt_us)

\* push the buffer or add the sample to the head interval
aitd_update_intervals(r, timestamp, sample, hist_us) ==
    LET interval_length == U32(2 * hist_us) \div (rocc_num_intervals_mask + 1) + 1
        head == Slot(r.intervals_head + rocc_num_intervals_mask)
    IN  IF r.intervals[r.intervals_head].start_us + interval_length < timestamp
        THEN [r EXCEPT !.intervals_head = head,
                       !.intervals[head] =
                           [start_us |-> timestamp,
                            pkts_acked |-> sample.acked_sacked,
                            pkts_lost |-> sample.losses,
                            app_limited |-> sample.is_app_limited]]
        ELSE [r EXCEPT !.intervals[r.intervals_head] =
                           [start_us |-> @.start_us,
                            pkts_acked |-> U32(@.pkts_acked + sample.acked_sacked),
                            pkts_lost |-> U32(@.pkts_lost + sample.losses),
                            app_limited |-> @.app_limited \/ sample.is_app_limited]]

\* the statistics of the last hist_us: the loop adds slot head + i and then
\* breaks when that slot started more than hist_us ago
RECURSIVE aitd_windowed_totals(_, _, _, _, _)
aitd_windowed_totals(r, hist_us, timestamp, i, acc) ==
    IF i > rocc_num_intervals_mask
    THEN acc
    ELSE LET slot == r.intervals[Slot(r.intervals_head + i)]
             sum == [pkts_acked |-> U32(acc.pkts_acked + slot.pkts_acked),
                     pkts_lost |-> U32(acc.pkts_lost + slot.pkts_lost),
                     app_limited |-> acc.app_limited \/ slot.app_limited]
         IN  IF slot.start_us + hist_us < timestamp
             THEN sum
             ELSE aitd_windowed_totals(r, hist_us, timestamp, i + 1, sum)

\* TARGET CWND
aitd_target_cwnd(loss_happened, snd_cwnd, pkts_acked) ==
    IF loss_happened
    THEN U32(snd_cwnd - 1 + U32_MOD)
    ELSE U32(U32(snd_cwnd + pkts_acked) \div 2 + 1)

\* UPDATE CWND: the local cwnd is assigned in the lowering branch only; in the
\* other branch it keeps whatever its stack slot held (uninit)
aitd_update_cwnd(snd_cwnd, target_cwnd, app_limited, uninit) ==
    IF snd_cwnd > target_cwnd
    THEN LET cwnd == max_t(IF app_limited /\ target_cwnd < snd_cwnd
                           THEN snd_cwnd ELSE target_cwnd,
                           aitd_rocc_min_cwnd)
         IN  [cwnd |-> cwnd, snd_cwnd |-> cwnd, lowered |-> TRUE]
    ELSE [cwnd |-> uninit, snd_cwnd |-> U32(snd_cwnd + 1), lowered |-> FALSE]

aitd_pacing_rate(cwnd, mss, min_rtt_us) ==
    MulDiv(U64_S_TO_US, cwnd * mss, min_rtt_us)

\* the decision tick, once min_rtt_us has passed since the last one
aitd_decide(r, t, totals, loss_mode, new_event, new_losses, uninit) ==
    LET target_cwnd == aitd_target_cwnd(r.loss_happened, t.snd_cwnd, totals.pkts_acked)
        upd == aitd_update_cwnd(t.snd_cwnd, target_cwnd, totals.app_limited, uninit)
    IN  /\ rocc' = [r EXCEPT !.last_decrease_seq =
                                 IF r.loss_happened THEN t.snd_nxt ELSE @,
                             !.last_update_tstamp = t.tcp_mstamp,
                             !.loss_happened = FALSE]
        /\ tsk' = [t EXCEPT !.snd_cwnd = upd.snd_cwnd]
        /\ sk_pacing_rate' = aitd_pacing_rate(upd.cwnd, t.mss_cache, r.min_rtt_us)
        /\ ev' = [kind |-> "aitd", tick |-> TRUE, loss_mode |-> loss_mode,
                  is_new_congestion_event |-> new_event,
                  reduced |-> r.loss_happened, lowered |-> upd.lowered,
                  target_cwnd |-> target_cwnd, snd_cwnd_before |-> t.snd_cwnd,
                  new_losses |-> new_losses]

\* rocc_process_sample of the variant; new_losses counts the losses reported
\* since the last reduction (this sample's included)
aitd_rocc_process_sample(t, sample, uninit) ==
    /\ UNCHANGED <<beliefs, id, socks, heap>>
    /\ rs' = sample
    /\ IF sample.delivered < 0 \/ sample.interval_us < 0
       THEN /\ UNCHANGED <<rocc, sk_pacing_rate>>
            /\ tsk' = t
            /\ ev' = [ev EXCEPT !.kind = "aitd_reject", !.tick = FALSE]
            /\ calls' = [calls EXCEPT !.rejected = @ + 1]
       ELSE LET min_rtt_us == aitd_min_rtt_us(rocc, t)
                hist_us == aitd_hist_us(min_rtt_us)
                r1 == aitd_update_intervals([rocc EXCEPT !.min_rtt_us = min_rtt_us],
                                            t.tcp_mstamp, sample, hist_us)
                totals == aitd_windowed_totals(r1, hist_us, t.tcp_mstamp, 0,
                              [pkts_acked |-> 0, pkts_lost |-> 0, app_limited |-> FALSE])
                loss_mode == get_loss_mode(totals.pkts_acked, totals.pkts_lost)
                new_event == aitd_after(sample.last_end_seq, rocc.last_decrease_seq)
                r2 == [r1 EXCEPT !.loss_happened = @ \/ (loss_mode /\ new_event)]
                new_losses == (IF ev.reduced THEN 0 ELSE ev.new_losses) + sample.losses
            IN  /\ calls' = [calls EXCEPT !.accepted = @ + 1]
                /\ IF t.tcp_mstamp - r2.last_update_tstamp >= r2.min_rtt_us
                   THEN aitd_decide(r2, t, totals, loss_mode, new_event, new_losses, uninit)
                   ELSE /\ rocc' = r2
                        /\ tsk' = t
                        /\ UNCHANGED sk_pacing_rate
                        /\ ev' = [kind |-> "aitd", tick |-> FALSE, loss_mode |-> loss_mode,
                                  is_new_congestion_event |-> new_event,
                                  reduced |-> FALSE, lowered |-> FALSE,
                                  target_cwnd |-> 0, snd_cwnd_before |-> t.snd_cwnd,
                                  new_losses |-> new_losses]

\* Scenario T: a connection under the simple variant.  Calls come a third of
\* a minimum RTT or a whole one apart; between two calls the sender transmits
\* two segments; a call acknowledges either nothing new (last_end_seq stays)
\* or everything that had been sent by the previous call.
MaxAitdCalls == 4
AitdStartCwnds == {aitd_rocc_min_cwnd, TCP_INIT_CWND}
AitdInitialSeq == 1000
\* what an unassigned local may hold
AitdStackValues == {0, 4096}

AitdKinds ==
    { [acked_sacked |-> 5, losses |-> 0, is_app_limited |-> FALSE, acks_new |-> TRUE],
      [acked_sacked |-> 5, losses |-> 0, is_app_limited |-> FALSE, acks_new |-> FALSE],
      [acked_sacked |-> 5, losses |-> 5, is_app_limited |-> FALSE, acks_new |-> TRUE],
      [acked_sacked |-> 5, losses |-> 0, is_app_limited |-> TRUE, acks_new |-> TRUE] }

InitT ==
    /\ id = 1
    /\ socks = [c \in Conns |-> IF c = Observed THEN OpenSock ELSE ClosedSock]
    /\ heap = {1}
    /\ beliefs = NULL
    /\ rocc = aitd_rocc_init(AitdInitialSeq)
    /\ \E snd_cwnd \in AitdStartCwnds :
           tsk = [srtt_us |-> 0, tcp_mstamp |-> 1000000, mss_cache |-> 1448,
                  snd_cwnd |-> snd_cwnd, snd_nxt |-> AitdInitialSeq,
                  snd_una |-> AitdInitialSeq]
    /\ sk_pacing_rate = SK_PACING_UNLIMITED
    /\ rs = NoSample
    /\ ev = [kind |-> "init", tick |-> FALSE, loss_mode |-> FALSE,
             is_new_congestion_event |-> FALSE, reduced |-> FALSE,
             lowered |-> FALSE, target_cwnd |-> 0, snd_cwnd_before |-> 0,
             new_losses |-> 0]
    /\ calls = [accepted |-> 0, rejected |-> 0]

\* the cong_control hook of the variant called with a valid sample
AitdSample ==
    /\ calls.accepted + calls.rejected < MaxAitdCalls
    /\ \E dt \in {3000, 10000}, kind \in AitdKinds, uninit \in AitdStackValues :
           LET last_end_seq == IF kind.acks_new THEN tsk.snd_nxt ELSE tsk.snd_una
           IN  aitd_rocc_process_sample(
                   [tsk EXCEPT !.tcp_mstamp = @ + dt,
                               !.srtt_us = 8 * 10000,
                               !.snd_nxt = U32(@ + 2 * tsk.mss_cache),
                               !.snd_una = last_end_seq],
                   [delivered |-> kind.acked_sacked, interval_us |-> dt,
                    acked_sacked |-> kind.acked_sacked, losses |-> kind.losses,
                    is_app_limited |-> kind.is_app_limited,
                    last_end_seq |-> last_end_seq],
                   uninit)

\* the hook called with a sample tcp_rate_gen marked invalid
AitdRejectedSample ==
    /\ calls.accepted + calls.rejected < MaxAitdCalls
    /\ aitd_rocc_process_sample(tsk,
           [delivered |-> -1, interval_us |-> -1, acked_sacked |-> 1, losses |-> 1,
            is_app_limited |-> FALSE, last_end_seq |-> tsk.snd_una],
           0)

NextT ==
    \/ AitdSample
    \/ AitdRejectedSample

SpecT == InitT /\ [][NextT]_vars

\* Scenario H: as scenario A, but the samples come half a minimum RTT apart,
\* so that every second call opens an interval and the calls in between add
\* to the head
HalfPeriodSample ==
    /\ calls.accepted < MaxPeriods
    /\ \E kind \in ScenarioKinds(0) :
           rocc_process_sample(SocketAt(5000, 8 * 10000, kind), SampleOf(5000, kind))

NextH == HalfPeriodSample

SpecH == Init /\ [][NextH]_vars

\* Scenario E: the update rule of min_c_lambda on its own, for the long run.
\* The belief starts from any pair of values a connection may have left in
\* min_c_lambda and last_min_c_lambda; each step is the end of one
\* update_beliefs_send, with the new_min_c_lambda its loop computed and the
\* timeout flag of that call.  From some call on (ev.quiet) the loop finds no
\* qualifying interval and new_min_c_lambda is INIT_MIN_C.
DecayStarts == {INIT_MIN_C, 2, 3, 100, 1000}
NewMinCLambdas == {INIT_MIN_C, 2, 150, 1000}

InitE ==
    /\ id = 1
    /\ socks = [c \in Conns |-> IF c = Observed THEN OpenSock ELSE ClosedSock]
    /\ heap = {1, 2}
    /\ rocc = InitRocc
    /\ \E min_c_lambda \in DecayStarts, last_min_c_lambda \in DecayStarts :
           beliefs = [InitBeliefs EXCEPT !.min_c_lambda = min_c_lambda,
                                         !.last_min_c_lambda = last_min_c_lambda]
    /\ tsk = [srtt_us |-> 0, tcp_mstamp |-> 1000000, bytes_sent |-> 0, delivered |-> 0,
              mss_cache |-> 1448, snd_cwnd |-> TCP_INIT_CWND]
    /\ sk_pacing_rate = SK_PACING_UNLIMITED
    /\ rs = NoSample
    /\ ev = [kind |-> "init", new_min_c_lambda |-> INIT_MIN_C, timeout |-> FALSE,
             quiet |-> FALSE]
    /\ calls = [accepted |-> 0, rejected |-> 0]

\* the end of update_beliefs_send for given results of its loop
SendUpdate(new_min_c_lambda, timeout, quiet) ==
    /\ beliefs' = min_c_lambda_update(beliefs, new_min_c_lambda, timeout)
    /\ ev' = [kind |-> "send_update", new_min_c_lambda |-> new_min_c_lambda,
              timeout |-> timeout, quiet |-> quiet]
    /\ UNCHANGED <<rocc, tsk, sk_pacing_rate, rs, calls, id, socks, heap>>

\* a call while the loop still finds qualifying intervals now and then
ActiveUpdate ==
    /\ ~ev.quiet
    /\ \E new_min_c_lambda \in NewMinCLambdas, timeout \in BOOLEAN :
           SendUpdate(new_min_c_lambda, timeout, FALSE)

\* a call without timeout in which the loop finds no qualifying interval;
\* the first of them starts the quiet phase
QuietUpdate == SendUpdate(INIT_MIN_C, FALSE, TRUE)

\* a call of the quiet phase in which the timeout has expired
QuietTimeoutUpdate == ev.quiet /\ SendUpdate(INIT_MIN_C, TRUE, TRUE)

NextE ==
    \/ ActiveUpdate
    \/ QuietUpdate
    \/ QuietTimeoutUpdate

\* interval boundaries keep occurring, so a timeout boundary comes again
\* rocc_timeout_period minimum RTTs after the last one
SpecE == InitE /\ [][NextE]_vars /\ WF_vars(QuietTimeoutUpdate)

\* Scenario R: the smoothed RTT moves freely once it is known, and can be
\* below one microsecond (srtt_us = 5, that is 5/8 us); small segments, so
\* that alpha_rate at min_rtt_us = 1 stays in range
SrttsR ==
    [srtt_us \in {0, 5, 160000} |->
        IF srtt_us = 0 THEN {0, 5, 160000} ELSE {5, 160000}]

InitR == InitWith(StartTimes) /\ tsk.mss_cache = 88

NextR ==
    \/ ValidSample({3000, 20000}, SrttsR[tsk.srtt_us])
    \/ RejectedSample

SpecR == InitR /\ [][NextR]_vars

\* Scenario M: the RTT estimate is 20 ms from the first call on, so the first
\* call pushes a valid head; samples come 3 or 20 ms apart and lose either
\* 30 of 530 packets (below the loss threshold) or 50 of 550 (above it)
LossKinds ==
    { [acked_sacked |-> 500, losses |-> losses, rtt_us |-> 20000,
       is_app_limited |-> FALSE, prior_in_flight |-> 4, sent |-> 500,
       lag |-> 500] : losses \in {30, 50} }

LossySample ==
    /\ calls.accepted + calls.rejected < MaxCalls
    /\ \E dt \in {3000, 20000}, kind \in LossKinds :
           rocc_process_sample(SocketAt(dt, 8 * 20000, kind), SampleOf(dt, kind))

NextM == LossySample

SpecM == Init /\ [][NextM]_vars

\* Scenarios L and U: the life of the connections.  The stack hands
\* rocc_init a zeroed private area, calls rocc_release when the connection
\* ends or leaves this congestion control, and may set the same socket up
\* again.  In scenario L two sockets go through rocc_init and rocc_release,
\* possibly at the same time on different CPUs; "++id" is a plain load and
\* store of the shared counter, and "rocc->id = id" reads it again.  In
\* scenario U there is the connection Observed alone, and samples reach it
\* before rocc_init (zeroed area) and while it is open; the stack serializes
\* them with rocc_init and rocc_release of the same socket.
MaxInits == 2

\* rocc_init, up to "++id": the interval buffer is allocated and filled
rocc_init_intervals(c) ==
    /\ socks[c].pc \in {"closed", "released"}
    /\ id < MaxInits
    /\ \E a \in {kzalloc(heap)} :
           /\ socks' = [socks EXCEPT ![c] = [ClosedSock EXCEPT !.pc = "id_load",
                                                              !.intervals = a]]
           /\ heap' = heap \cup {a}
    /\ UNCHANGED <<rocc, beliefs, tsk, sk_pacing_rate, rs, ev, calls, id>>

\* "++id", the load
id_load(c) ==
    /\ socks[c].pc = "id_load"
    /\ socks' = [socks EXCEPT ![c].pc = "id_store", ![c].reg = id]
    /\ UNCHANGED <<rocc, beliefs, tsk, sk_pacing_rate, rs, ev, calls, id, heap>>

\* "++id", the store
id_store(c) ==
    /\ socks[c].pc = "id_store"
    /\ id' = U32(socks[c].reg + 1)
    /\ socks' = [socks EXCEPT ![c].pc = "id_read"]
    /\ UNCHANGED <<rocc, beliefs, tsk, sk_pacing_rate, rs, ev, calls, heap>>

\* rocc_init from "rocc->id = id" on: the belief record is allocated and the
\* controller is in its initial state
rocc_init_finish(c) ==
    /\ socks[c].pc = "id_read"
    /\ \E a \in {kzalloc(heap)} :
           /\ socks' = [socks EXCEPT ![c].pc = "open", ![c].rocc_id = id,
                                      ![c].beliefs = a]
           /\ heap' = heap \cup {a}
    /\ IF c = Observed
       THEN /\ rocc' = InitRocc
            /\ beliefs' = InitBeliefs
            /\ rs' = NoSample
            /\ ev' = NoEvent
       ELSE UNCHANGED <<rocc, beliefs, rs, ev>>
    /\ UNCHANGED <<tsk, sk_pacing_rate, calls, id>>

\* rocc_release(sk): kfree(rocc->intervals); the pointers keep their values
rocc_release(c) ==
    /\ socks[c].pc = "open"
    /\ socks' = [socks EXCEPT ![c].pc = "released"]
    /\ heap' = heap \ {socks[c].intervals}
    /\ UNCHANGED <<rocc, beliefs, tsk, sk_pacing_rate, rs, ev, calls, id>>

\* the cong_control hook of the connection Observed, with a valid or an
\* invalid sample, before rocc_init or while the connection is open
LifeSample ==
    /\ socks[Observed].pc \in {"closed", "open"}
    /\ calls.accepted + calls.rejected < MaxCalls
    /\ \/ \E kind \in ScenarioKinds(0) :
              rocc_process_sample(SocketAt(10000, 8 * 10000, kind),
                                  SampleOf(10000, kind))
       \/ \E invalid_kind \in InvalidKinds :
              rocc_process_sample(tsk, InvalidSample(invalid_kind))

InitL ==
    /\ id = 0
    /\ socks = [c \in Conns |-> ClosedSock]
    /\ heap = {}
    /\ rocc = ZeroRocc
    /\ beliefs = << >>
    /\ \E mss \in MssValues, t0 \in StartTimes :
           tsk = [srtt_us |-> 0, tcp_mstamp |-> t0, bytes_sent |-> 0, delivered |-> 0,
                  mss_cache |-> mss, snd_cwnd |-> TCP_INIT_CWND]
    /\ sk_pacing_rate = SK_PACING_UNLIMITED
    /\ rs = NoSample
    /\ ev = NoEvent
    /\ calls = [accepted |-> 0, rejected |-> 0]

\* one step in the life of connection c
Life(c) ==
    \/ rocc_init_intervals(c)
    \/ id_load(c)
    \/ id_store(c)
    \/ rocc_init_finish(c)
    \/ rocc_release(c)

NextL == \E c \in Conns : Life(c)

SpecL == InitL /\ [][NextL]_vars

NextU ==
    \/ Life(Observed)
    \/ LifeSample

SpecU == InitL /\ [][NextU]_vars

\* ------------------------------------------------------------- properties
\* C1 (floors): after every call in which a decision tick fires, snd_cwnd is
\* at least rocc_alpha_segments and sk_pacing_rate is at least
\* alpha_rate = rocc_alpha_segments * mss * 1e6 / min_rtt_us, whatever the
\* beliefs, the control state and the in-flight count
Floors ==
    ev.tick =>
        /\ tsk.snd_cwnd >= rocc_alpha_segments
        /\ sk_pacing_rate >= alpha_rate_of(rocc_get_mss(tsk), rocc.min_rtt_us)

\* a tick in SLOW_START whose computed rate 2 * min_c * mss lies below
\* alpha_rate, so that the floor is what the call leaves in sk_pacing_rate
FloorsWitness ==
    /\ ev.tick
    /\ rocc.state = SLOW_START
    /\ beliefs.min_qdel = 0
    /\ 2 * beliefs.min_c * rocc_get_mss(tsk) < ev.alpha_rate
    /\ sk_pacing_rate = ev.alpha_rate

\* C2 (state irreversibility): once the control state is CONG_AVOID, it is
\* CONG_AVOID after every later call, whatever the sample
StateIrreversible ==
    [][rocc.state = CONG_AVOID => rocc'.state = CONG_AVOID]_vars

\* an accepted sample whose window is not in loss mode, processed in CONG_AVOID
StateIrreversibleWitness ==
    /\ rocc.state = CONG_AVOID
    /\ ev.kind \in {"push", "merge"}
    /\ ~ev.loss_mode

\* C3 (monotonicity of min_c): across every call whose belief update is not a
\* timeout correction, and across every call without a belief update, min_c
\* does not decrease
MinCMonotone ==
    [][~ev'.timeout => beliefs'.min_c >= beliefs.min_c]_vars

\* a belief update without a timeout whose scan found a lower bound below the
\* min_c already believed
MinCMonotoneWitness ==
    /\ ev.kind = "push"
    /\ ~ev.timeout
    /\ ev.new_min_c < beliefs.min_c

\* C4 as stated (monotonicity of max_c): across every call whose belief
\* update is not a timeout correction, max_c does not increase
MaxCMonotone ==
    [][~ev'.timeout => beliefs'.max_c <= beliefs.max_c]_vars

\* C4 as the code has it: across every call whose belief update is not a
\* timeout correction, max_c does not increase unless the final clamp lifts
\* it to max_c_lower_clamp = max(INIT_MIN_C, alpha_rate)
MaxCMonotoneUpToClamp ==
    [][~ev'.timeout =>
          \/ beliefs'.max_c <= beliefs.max_c
          \/ beliefs'.max_c = ev'.max_c_lower_clamp]_vars

\* a belief update without a timeout in which the scan tightened max_c to an
\* observed bound that lies above the lower clamp
MaxCMonotoneWitness ==
    /\ ev.kind = "push"
    /\ ~ev.timeout
    /\ ev.new_max_c < INIT_MAX_C
    /\ ev.max_c_lower_clamp < ev.new_max_c
    /\ beliefs.max_c = ev.new_max_c

\* C5 (rejection): a call whose sample has delivered < 0 or interval_us < 0
\* leaves the controller (history, min_rtt_us, timestamps, timeout
\* bookkeeping, state), the beliefs, snd_cwnd and sk_pacing_rate unchanged
RejectionLeavesState ==
    [][(rs'.delivered < 0 \/ rs'.interval_us < 0) =>
          /\ rocc' = rocc
          /\ beliefs' = beliefs
          /\ tsk'.snd_cwnd = tsk.snd_cwnd
          /\ sk_pacing_rate' = sk_pacing_rate]_vars

\* a sample with negative delivered and a non-negative interval length was
\* handed to a controller that had already recorded intervals and ticked
RejectionWitness ==
    /\ ev.kind = "reject"
    /\ rs.delivered < 0
    /\ rs.interval_us >= 0
    /\ rocc.intervals_head # 0
    /\ tsk.snd_cwnd # TCP_INIT_CWND

\* C6 as stated (causality): every interval folded into new_min_c_lambda has
\* a successor whose delivered counter exceeds the cutoff in use, and that
\* cutoff is the ic_rs_prior_delivered recorded when the folded interval was
\* created
FoldedSuccessorPastOwnCutoff ==
    \A st \in ev.folded :
        LET this_interval == rocc.intervals[Slot(rocc.intervals_head + st)]
            next_future_interval == rocc.intervals[Slot(rocc.intervals_head + st - 1)]
        IN  /\ ev.delivered_1rtt_ago = this_interval.ic_rs_prior_delivered
            /\ next_future_interval.ic_delivered > ev.delivered_1rtt_ago

\* C6 as the code has it: every interval folded into new_min_c_lambda has a
\* successor whose delivered counter does not exceed the cutoff, and the
\* cutoff is the ic_rs_prior_delivered of the head interval, recorded by the
\* call that runs the scan
FoldedSuccessorWithinHeadCutoff ==
    \A st \in ev.folded :
        LET head_interval == rocc.intervals[Slot(rocc.intervals_head)]
            next_future_interval == rocc.intervals[Slot(rocc.intervals_head + st - 1)]
        IN  /\ ev.delivered_1rtt_ago = head_interval.ic_rs_prior_delivered
            /\ next_future_interval.ic_delivered <= head_interval.ic_rs_prior_delivered

\* a scan that folded one interval and passed over a newer one whose
\* successor is the head itself
FoldedWitness ==
    /\ ev.kind = "push"
    /\ 2 \in ev.folded
    /\ 1 \notin ev.folded
    /\ beliefs.min_c_lambda = ev.new_min_c_lambda
    /\ beliefs.min_c_lambda > INIT_MIN_C

\* C7 as stated (Scenario C, RTT never known): in every reachable state
\* min_rtt_us is still U32_MAX, the last call pushed no interval, ran no
\* belief update and fired no tick, snd_cwnd and sk_pacing_rate are as the
\* stack left them, and no division had a zero divisor
RttNeverKnownSuspends ==
    /\ rocc.min_rtt_us = U32_MAX
    /\ ev.kind # "push"
    /\ ~ev.tick
    /\ rocc.intervals_head = 0
    /\ rocc.last_update_tstamp = 0
    /\ beliefs = InitBeliefs
    /\ tsk.snd_cwnd = TCP_INIT_CWND
    /\ sk_pacing_rate = SK_PACING_UNLIMITED
    /\ ~ev.div0

\* every slot of the interval history has been recorded
HistoryFull == \A i \in 0 .. rocc_num_intervals - 1 : ~rocc.intervals[i].invalid

\* C8 as stated (Scenario A, upper bound): after every belief update max_c
\* equals INIT_MAX_C, for every MSS
ScenarioAMaxCStays ==
    ev.kind = "push" => beliefs.max_c = INIT_MAX_C

ScenarioBMaxCTightened ==
    (/\ ev.kind = "push"
     /\ ~rocc.intervals[Slot(rocc.intervals_head + 2)].invalid)
        => /\ ev.new_max_c < INIT_MAX_C
           /\ beliefs.max_c < INIT_MAX_C
           /\ beliefs.max_c = ev.new_max_c

\* C11 (loss triggers CONG_AVOID): after every call that fires a decision
\* tick while the windowed totals are in loss mode, the control state is
\* CONG_AVOID and the window and rate of that tick are those of the
\* CONG_AVOID law (drain: snd_cwnd = rocc_alpha_segments and the rate kept,
\* floored at alpha_rate; otherwise rate = 2 * min_c_lambda * mss +
\* alpha_rate), whatever the state before the call
LossTriggersCongAvoid ==
    [][(ev'.tick /\ ev'.loss_mode) =>
          /\ rocc'.state = CONG_AVOID
          /\ IF rs'.prior_in_flight > 2 * rocc_alpha_segments
             THEN /\ tsk'.snd_cwnd = rocc_alpha_segments
                  /\ sk_pacing_rate' = max_t(sk_pacing_rate, ev'.alpha_rate)
             ELSE /\ tsk'.snd_cwnd =
                         max_t(U32(MulDiv(2 * beliefs'.max_c, 2 * rocc'.min_rtt_us,
                                          U64_S_TO_US)),
                               rocc_alpha_segments)
                  /\ sk_pacing_rate' =
                         2 * beliefs'.min_c_lambda * rocc_get_mss(tsk')
                             + ev'.alpha_rate]_vars

\* the first call of a connection (state SLOW_START before it) ticks in loss
\* mode with little in flight: the rate is the CONG_AVOID rate, which differs
\* from what the SLOW_START law would have emitted
LossTriggersCongAvoidWitness ==
    /\ calls.accepted = 1
    /\ calls.rejected = 0
    /\ ev.tick
    /\ ev.loss_mode
    /\ rocc.state = CONG_AVOID
    /\ rs.prior_in_flight <= 2 * rocc_alpha_segments
    /\ sk_pacing_rate = 2 * beliefs.min_c_lambda * rocc_get_mss(tsk) + ev.alpha_rate
    /\ sk_pacing_rate # max_t(2 * beliefs.min_c * rocc_get_mss(tsk), ev.alpha_rate)

\* C12 (decision throttle): a call fires at most one tick, which stamps
\* last_update_tstamp with the time of the call, a call without a tick
\* leaves last_update_tstamp alone, and a tick that follows an earlier tick
\* (last_update_tstamp > 0) comes at least min_rtt_us, as known after the
\* call, later than it
DecisionThrottle ==
    [][/\ ev'.tick => rocc'.last_update_tstamp = tsk'.tcp_mstamp
       /\ ~ev'.tick => rocc'.last_update_tstamp = rocc.last_update_tstamp
       /\ (ev'.tick /\ rocc.last_update_tstamp > 0) =>
              tsk'.tcp_mstamp - rocc.last_update_tstamp >= rocc'.min_rtt_us]_vars

\* a tick 23 ms after the previous one at min_rtt_us 20 ms: the call in
\* between, 3 ms after the previous tick, was held back
DecisionThrottleWitness ==
    /\ ev.tick
    /\ calls.accepted = 3
    /\ rocc.min_rtt_us = 20000
    /\ ~rocc.intervals[Slot(rocc.intervals_head + 1)].invalid
    /\ rocc.intervals[Slot(rocc.intervals_head + 2)].invalid
    /\ rocc.last_update_tstamp
           = rocc.intervals[Slot(rocc.intervals_head + 1)].start_us + 23000

\* C13 (interval boundaries are synchronized with decisions): a call pushes
\* a new head slot, and runs the belief updates, exactly when it fires a
\* tick; after a tick last_update_tstamp is the start_us of the head slot;
\* an accepted sample without a tick keeps the head index, the beliefs and
\* the start of the head slot
PushIffTick ==
    [][/\ (ev'.kind = "push") <=> ev'.tick
       /\ ev'.tick =>
              /\ rocc'.intervals_head = Slot(rocc.intervals_head - 1)
              /\ rocc'.last_update_tstamp
                     = rocc'.intervals[rocc'.intervals_head].start_us
              /\ rocc'.intervals[rocc'.intervals_head].start_us = tsk'.tcp_mstamp
       /\ (ev'.kind = "merge") =>
              /\ rocc'.intervals_head = rocc.intervals_head
              /\ beliefs' = beliefs
              /\ rocc'.intervals[rocc'.intervals_head].start_us
                     = rocc.intervals[rocc.intervals_head].start_us
              /\ rocc'.last_update_tstamp = rocc.last_update_tstamp]_vars

\* an accepted sample that came too early for a tick: it was merged into the
\* head slot, which now holds two samples and still starts at the time of
\* the last decision
PushIffTickWitness ==
    /\ ev.kind = "merge"
    /\ ~ev.tick
    /\ ~rocc.intervals[rocc.intervals_head].invalid
    /\ rocc.intervals[rocc.intervals_head].pkts_acked = 1000
    /\ rocc.last_update_tstamp = rocc.intervals[rocc.intervals_head].start_us
    /\ tsk.tcp_mstamp > rocc.last_update_tstamp

\* C14 (min_rtt_us): min_rtt_us never increases and is never 0; a call that
\* carries no RTT estimate (srtt_us = 0) or is rejected leaves it as it is,
\* so it is U32_MAX until the first estimate; an accepted sample with
\* estimate r = srtt_us >> 3 leaves min(previous min_rtt_us, max(r, 1))
MinRttMonotone ==
    [][/\ rocc'.min_rtt_us <= rocc.min_rtt_us
       /\ rocc'.min_rtt_us >= 1
       /\ (ev'.kind = "reject" \/ tsk'.srtt_us = 0) =>
              rocc'.min_rtt_us = rocc.min_rtt_us
       /\ (ev'.kind \in {"push", "merge"} /\ tsk'.srtt_us # 0) =>
              rocc'.min_rtt_us =
                  min_t(rocc.min_rtt_us, max_t(tsk'.srtt_us \div 8, 1))]_vars

\* an estimate below one microsecond was clamped to 1, and a later sample
\* with a larger estimate left the minimum where it was
MinRttMonotoneWitness ==
    /\ rocc.min_rtt_us = 1
    /\ tsk.srtt_us = 160000
    /\ ev.kind \in {"push", "merge"}

\* C15 as stated (superseded intervals are immutable): a call changes no
\* field, the processed flag included, of any slot other than the one that
\* is the head when the call returns
SupersededImmutable ==
    [][\A i \in 0 .. rocc_num_intervals - 1 :
          i # rocc'.intervals_head => rocc'.intervals[i] = rocc.intervals[i]]_vars

\* C15 as the code has it: of a slot other than the head at the end of the
\* call, a call changes nothing but the processed flag, which
\* update_beliefs_send may set and nothing clears
SupersededImmutableUpToProcessed ==
    [][\A i \in 0 .. rocc_num_intervals - 1 :
          i # rocc'.intervals_head =>
              /\ [rocc'.intervals[i] EXCEPT !.processed = FALSE]
                     = [rocc.intervals[i] EXCEPT !.processed = FALSE]
              /\ rocc.intervals[i].processed => rocc'.intervals[i].processed]_vars

\* a push whose update_beliefs_send marked the interval two behind the head
\* as processed while the one right behind the head was passed over
SupersededWitness ==
    /\ ev.kind = "push"
    /\ rocc.intervals[Slot(rocc.intervals_head + 2)].processed
    /\ ~rocc.intervals[Slot(rocc.intervals_head + 1)].processed
    /\ ~rocc.intervals[Slot(rocc.intervals_head + 1)].invalid

\* C16 as stated (windowed totals ignore invalid slots): after every accepted
\* sample the windowed pkts_acked, pkts_lost and app_limited, and the loss
\* mode decided from them, are those of a scan from the head that stops at
\* the first invalid slot (valid_totals) and otherwise ends where the scan
\* of the history window ends
WindowedTotalsIgnoreInvalid ==
    ev.kind \in {"push", "merge"} =>
        LET hist_us == IF rocc.min_rtt_us = U32_MAX THEN U32_MAX
                       ELSE MulU32(rocc_history_periods, rocc.min_rtt_us)
            none == [pkts_acked |-> 0, pkts_lost |-> 0, app_limited |-> FALSE,
                     scanned |-> 0]
            RECURSIVE valid_totals(_, _)
            valid_totals(i, acc) ==
                IF i >= rocc_num_intervals THEN acc
                ELSE
                LET slot == rocc.intervals[Slot(rocc.intervals_head + i)]
                    sum == [pkts_acked |-> U32(acc.pkts_acked + slot.pkts_acked),
                            pkts_lost |-> U32(acc.pkts_lost + slot.pkts_lost),
                            app_limited |-> acc.app_limited \/ slot.app_limited,
                            scanned |-> i + 1]
                IN  IF slot.invalid THEN acc
                    ELSE IF slot.start_us < tsk.tcp_mstamp - hist_us THEN sum
                    ELSE valid_totals(i + 1, sum)
            agree(code, valid) ==
                /\ code.pkts_acked = valid.pkts_acked
                /\ code.pkts_lost = valid.pkts_lost
                /\ code.app_limited = valid.app_limited
                /\ ev.loss_mode = get_loss_mode(valid.pkts_acked, valid.pkts_lost)
        IN  agree(windowed_totals(rocc, hist_us, tsk.tcp_mstamp, 0, none),
                  valid_totals(0, none))

\* C17 (final clamp): after every call that ran update_beliefs, with or
\* without a timeout correction, max_c is at least
\* max(INIT_MIN_C, rocc_alpha_segments * mss * 1e6 / min_rtt_us) for the mss
\* and the min_rtt_us of that call
FinalClamp ==
    ev.kind = "push" =>
        beliefs.max_c >= max_t(INIT_MIN_C,
                               MulDiv(rocc_alpha_segments * rocc_get_mss(tsk),
                                      U64_S_TO_US, rocc.min_rtt_us))

\* a timeout correction left max_c (recorded in last_timeout_maxc) below the
\* lower clamp, and the final clamp lifted it to exactly that value
FinalClampWitness ==
    /\ ev.kind = "push"
    /\ ev.timeout
    /\ rocc.last_timeout_maxc < ev.max_c_lower_clamp
    /\ ev.max_c_lower_clamp > INIT_MIN_C
    /\ beliefs.max_c = ev.max_c_lower_clamp

\* C18 as stated (release frees everything init allocated): after
\* rocc_release of a connection neither the interval array nor the belief
\* record that rocc_init allocated for it is still allocated, and when no
\* connection is set up no allocation is outstanding
ReleaseFreesAll ==
    /\ \A c \in Conns :
           socks[c].pc = "released" =>
               /\ socks[c].intervals \notin heap
               /\ socks[c].beliefs \notin heap
    /\ (\A c \in Conns : socks[c].pc \in {"closed", "released"}) => heap = {}

\* C19 as stated (diagnostic ids are unique): no two connections that are
\* open at the same time hold the same rocc->id
UniqueIds ==
    \A c1, c2 \in Conns :
        (c1 # c2 /\ socks[c1].pc = "open" /\ socks[c2].pc = "open")
            => socks[c1].rocc_id # socks[c2].rocc_id

\* C20 (uninitialized state is a no-op): a call to rocc_process_sample made
\* while rocc->intervals is NULL leaves the controller (min_rtt_us, state,
\* last_update_tstamp and the rest), the beliefs, snd_cwnd and
\* sk_pacing_rate as they were, whatever the sample
UninitializedNoOp ==
    [][(socks[Observed].intervals = NULL /\ calls' # calls) =>
          /\ rocc' = rocc
          /\ beliefs' = beliefs
          /\ tsk'.snd_cwnd = tsk.snd_cwnd
          /\ sk_pacing_rate' = sk_pacing_rate]_vars

\* a valid sample, acking packets, was handed to a controller whose interval
\* buffer is not allocated and was turned away
UninitializedNoOpWitness ==
    /\ ev.kind = "uninit"
    /\ socks[Observed].intervals = NULL
    /\ rs.delivered > 0
    /\ rs.interval_us > 0
    /\ rs.acked_sacked > 0
    /\ rocc = ZeroRocc
    /\ tsk.snd_cwnd = TCP_INIT_CWND

\* C21 as stated (the control state changes only on decision ticks): an
\* accepted sample that fires no tick leaves the control state as it was
StateChangesOnlyOnTicks ==
    [][(ev'.kind \in {"push", "merge"} /\ ~ev'.tick) =>
          rocc'.state = rocc.state]_vars

\* C21 as the code has it: every accepted sample, tick or not, sets the
\* control state to CONG_AVOID when the windowed totals after the sample are
\* in loss mode and leaves it as it was otherwise; rejected samples leave it
StateChangesOnWindowedLoss ==
    [][/\ ev'.kind \in {"push", "merge"} =>
              rocc'.state = IF ev'.loss_mode THEN CONG_AVOID ELSE rocc.state
       /\ ev'.kind = "reject" => rocc'.state = rocc.state]_vars

\* the second sample of a connection was merged into a valid head without a
\* tick; the head was pushed with 30 losses (no loss mode, SLOW_START) and
\* holds 80 after the merge, which put the window in loss mode and the state
\* in CONG_AVOID
StateChangesWitness ==
    /\ calls.accepted = 2
    /\ ev.kind = "merge"
    /\ ~ev.tick
    /\ ev.loss_mode
    /\ ~rocc.intervals[rocc.intervals_head].invalid
    /\ rocc.intervals[rocc.intervals_head].pkts_lost = 80
    /\ rs.losses = 50
    /\ rocc.state = CONG_AVOID

\* C22 as stated (timeout snapshot): after a call whose update_beliefs ran
\* the timeout correction, last_timeout_minc and last_timeout_maxc are the
\* min_c and max_c the call leaves in the beliefs and last_timeout_tstamp is
\* the start of the head interval; any other call leaves the three fields
TimeoutSnapshotIsResult ==
    [][IF ev'.kind = "push" /\ ev'.timeout
       THEN /\ rocc'.last_timeout_minc = beliefs'.min_c
            /\ rocc'.last_timeout_maxc = beliefs'.max_c
            /\ rocc'.last_timeout_tstamp
                   = rocc'.intervals[rocc'.intervals_head].start_us
       ELSE /\ rocc'.last_timeout_minc = rocc.last_timeout_minc
            /\ rocc'.last_timeout_maxc = rocc.last_timeout_maxc
            /\ rocc'.last_timeout_tstamp = rocc.last_timeout_tstamp]_vars

\* C22 as the code has it: the snapshot is taken before the final clamp, so
\* last_timeout_maxc is the max_c the timeout branch computed
\* (min(3 * max_c / 2, new_max_c) when max_c was judged stuck, else
\* min(max_c, new_max_c)) and the max_c the call leaves is the larger of the
\* snapshot and max_c_lower_clamp
TimeoutSnapshotBeforeClamp ==
    [][IF ev'.kind = "push" /\ ev'.timeout
       THEN /\ rocc'.last_timeout_minc = beliefs'.min_c
            /\ rocc'.last_timeout_maxc =
                   IF ev'.timeout_maxc
                   THEN min_t((beliefs.max_c * 3) \div 2, ev'.new_max_c)
                   ELSE min_t(beliefs.max_c, ev'.new_max_c)
            /\ beliefs'.max_c
                   = max_t(rocc'.last_timeout_maxc, ev'.max_c_lower_clamp)
            /\ rocc'.last_timeout_tstamp
                   = rocc'.intervals[rocc'.intervals_head].start_us
       ELSE /\ rocc'.last_timeout_minc = rocc.last_timeout_minc
            /\ rocc'.last_timeout_maxc = rocc.last_timeout_maxc
            /\ rocc'.last_timeout_tstamp = rocc.last_timeout_tstamp]_vars

\* a timeout correction that tightened max_c to the bound of the scan,
\* recorded that bound, and then had the final clamp lift max_c above it
TimeoutSnapshotWitness ==
    /\ ev.kind = "push"
    /\ ev.timeout
    /\ ev.new_max_c < INIT_MAX_C
    /\ rocc.last_timeout_maxc = ev.new_max_c
    /\ rocc.last_timeout_maxc < beliefs.max_c
    /\ beliefs.max_c = ev.max_c_lower_clamp

\* C23 as stated (min_c can only be lowered by a stuck-bound timeout): a
\* belief update leaves min_c smaller than before only if it is a timeout
\* correction with new_min_c <= last_timeout_minc, and then min_c is
\* new_min_c; and a timeout correction that follows an earlier one comes
\* more than rocc_timeout_period * min_rtt_us after it
\* (d > 12 * m is written (d - 1) \div 12 >= m)
MinCLoweredOnlyByTimeout ==
    [][/\ (ev'.kind = "push" /\ beliefs'.min_c < beliefs.min_c) =>
              /\ ev'.timeout
              /\ ev'.new_min_c <= rocc.last_timeout_minc
              /\ beliefs'.min_c = ev'.new_min_c
       /\ (ev'.kind = "push" /\ ev'.timeout /\ rocc.last_timeout_tstamp > 0) =>
              (rocc'.intervals[rocc'.intervals_head].start_us
                   - rocc.last_timeout_tstamp - 1) \div rocc_timeout_period
                  >= rocc'.min_rtt_us]_vars

\* C24 (max_c relaxation is bounded): a belief update leaves max_c larger
\* than before only if (a) it is a timeout correction that judged max_c
\* stuck, so new_max_c >= last_timeout_maxc, and the value before the final
\* clamp (the one the snapshot keeps) is min(floor(3 * old max_c / 2),
\* new_max_c), or (b) the final lower clamp raised it
MaxCRelaxationBounded ==
    [][(ev'.kind = "push" /\ beliefs'.max_c > beliefs.max_c) =>
          \/ /\ ev'.timeout
             /\ ev'.timeout_maxc
             /\ ev'.new_max_c >= rocc.last_timeout_maxc
             /\ rocc'.last_timeout_maxc =
                    min_t((beliefs.max_c * 3) \div 2, ev'.new_max_c)
          \/ /\ beliefs'.max_c = ev'.max_c_lower_clamp
             /\ beliefs'.max_c >
                    (IF ev'.timeout THEN rocc'.last_timeout_maxc
                     ELSE min_t(beliefs.max_c, ev'.new_max_c))]_vars

\* a timeout correction relaxed a stuck max_c by the 3/2 allowance, short of
\* new_max_c, and the final clamp left the relaxed value alone
MaxCRelaxationWitness ==
    /\ ev.kind = "push"
    /\ ev.timeout
    /\ ev.timeout_maxc
    /\ rocc.last_timeout_maxc < ev.new_max_c
    /\ beliefs.max_c = rocc.last_timeout_maxc
    /\ beliefs.max_c > ev.max_c_lower_clamp

\* C25 (min_c_lambda jumps up instantly and decays only on timeout): across
\* a belief update that is not on a timeout boundary min_c_lambda becomes
\* max(min_c_lambda, new_min_c_lambda); whenever new_min_c_lambda exceeds the
\* current value it is adopted and last_min_c_lambda becomes the old
\* min_c_lambda; min_c_lambda decreases only in an update on a timeout
\* boundary; last_min_c_lambda changes only when min_c_lambda is raised
MinCLambdaJumpsAndDecays ==
    [][/\ (ev'.kind = "push" /\ ~ev'.timeout) =>
              beliefs'.min_c_lambda =
                  max_t(beliefs.min_c_lambda, ev'.new_min_c_lambda)
       /\ (ev'.kind = "push" /\ ev'.new_min_c_lambda > beliefs.min_c_lambda) =>
              /\ beliefs'.min_c_lambda = ev'.new_min_c_lambda
              /\ beliefs'.last_min_c_lambda = beliefs.min_c_lambda
       /\ beliefs'.min_c_lambda < beliefs.min_c_lambda =>
              (ev'.kind = "push" /\ ev'.timeout)
       /\ beliefs'.last_min_c_lambda # beliefs.last_min_c_lambda =>
              (ev'.kind = "push" /\ beliefs'.min_c_lambda > beliefs.min_c_lambda)
      ]_vars

\* an update off the timeout boundary has just raised min_c_lambda for the
\* second time at least: the value it demoted is itself an adopted one
MinCLambdaJumpWitness ==
    /\ ev.kind = "push"
    /\ ~ev.timeout
    /\ beliefs.min_c_lambda = ev.new_min_c_lambda
    /\ beliefs.min_c_lambda > beliefs.last_min_c_lambda
    /\ beliefs.last_min_c_lambda > INIT_MIN_C

\* C26 (min_c_lambda timeout decay): in a belief update on a timeout
\* boundary with new_min_c_lambda <= min_c_lambda, the new min_c_lambda is
\* max(last_min_c_lambda, new_min_c_lambda) if min_c_lambda was above
\* last_min_c_lambda and max(floor(2 * min_c_lambda / 3), new_min_c_lambda)
\* otherwise; either way it is at most the previous min_c_lambda and at
\* least new_min_c_lambda
MinCLambdaTimeoutDecay ==
    [][(/\ ev'.kind = "push"
        /\ ev'.timeout
        /\ ev'.new_min_c_lambda <= beliefs.min_c_lambda) =>
          /\ beliefs'.min_c_lambda =
                 IF beliefs.min_c_lambda > beliefs.last_min_c_lambda
                 THEN max_t(beliefs.last_min_c_lambda, ev'.new_min_c_lambda)
                 ELSE max_t((2 * beliefs.min_c_lambda) \div 3,
                            ev'.new_min_c_lambda)
          /\ beliefs'.min_c_lambda <= beliefs.min_c_lambda
          /\ beliefs'.min_c_lambda >= ev'.new_min_c_lambda]_vars

\* a timeout boundary has just shrunk min_c_lambda to two thirds: it is
\* below last_min_c_lambda and still above new_min_c_lambda
MinCLambdaTimeoutDecayWitness ==
    /\ ev.kind = "push"
    /\ ev.timeout
    /\ ev.new_min_c_lambda < beliefs.min_c_lambda
    /\ beliefs.min_c_lambda < beliefs.last_min_c_lambda

\* C27 as stated (the min_c_lambda scan stops at processed intervals): no
\* interval that an earlier belief update has marked processed contributes
\* its bytes-sent rate to new_min_c_lambda again
ScanStopsAtProcessed ==
    [][ev'.kind = "push" =>
          \A st \in ev'.folded :
              ~rocc.intervals[Slot(rocc'.intervals_head + st)].processed]_vars

\* C27, amended: the scan stops only at an invalid interval or, once the
\* delivery gate has let an interval through, at the first break of
\* cumulative under-utilization; the intervals that contribute are exactly
\* those that pass the gate while every interval from the head down to them
\* is valid and under-utilized, whether or not an earlier update has marked
\* them processed
ScanIgnoresProcessed ==
    [][ev'.kind = "push" =>
          LET r == rocc'
              et == r.intervals_head
              under_utilized(k) ==
                  /\ ~get_loss_mode(r.intervals[Slot(et + k)].pkts_acked,
                                    r.intervals[Slot(et + k)].pkts_lost)
                  /\ ~high_delay(r.intervals[Slot(et + k)].max_rtt_us,
                                 r.min_rtt_us)
          IN  ev'.folded =
                 { st \in 1..(rocc_num_intervals - 1) :
                     /\ \A k \in 1..st : ~r.intervals[Slot(et + k)].invalid
                     /\ \A k \in 0..st : under_utilized(k)
                     /\ sent_1rtt_before(r.intervals[Slot(et + st - 1)],
                                         ev'.delivered_1rtt_ago) }]_vars

\* one belief update took the rates of the intervals three and four periods
\* behind the head, both marked processed now; with one update per period
\* the older was three periods behind in the update before and was taken
\* there too
ScanIgnoresProcessedWitness ==
    /\ ev.kind = "push"
    /\ {3, 4} \subseteq ev.folded
    /\ rocc.intervals[Slot(rocc.intervals_head + 3)].processed
    /\ rocc.intervals[Slot(rocc.intervals_head + 4)].processed

\* C28 (the CONG_AVOID drain cuts only the window): after a call that fires
\* a decision tick in state CONG_AVOID, if more than 2 * rocc_alpha_segments
\* segments were in flight then snd_cwnd is rocc_alpha_segments and the
\* pacing rate is the one from before the call, raised to alpha_rate if it
\* was below; otherwise the rate is 2 * min_c_lambda * mss + alpha_rate and
\* the window is max(rocc_alpha_segments, 4 * max_c * min_rtt_us / 1e6)
CongAvoidDrain ==
    [][(ev'.tick /\ rocc'.state = CONG_AVOID) =>
          IF rs'.prior_in_flight > 2 * rocc_alpha_segments
          THEN /\ tsk'.snd_cwnd = rocc_alpha_segments
               /\ sk_pacing_rate' = max_t(sk_pacing_rate, ev'.alpha_rate)
          ELSE /\ sk_pacing_rate' =
                      2 * beliefs'.min_c_lambda * rocc_get_mss(tsk')
                          + ev'.alpha_rate
               /\ tsk'.snd_cwnd =
                      max_t(rocc_alpha_segments,
                            MulDiv(4 * beliefs'.max_c, rocc'.min_rtt_us,
                                   U64_S_TO_US))]_vars

\* a tick in CONG_AVOID, the loss that caused the state no longer in the
\* window, drained the window and kept a rate that is above alpha_rate and
\* is not what the other branch would have computed
CongAvoidDrainWitness ==
    /\ ev.tick
    /\ ~ev.loss_mode
    /\ rocc.state = CONG_AVOID
    /\ rs.prior_in_flight > 2 * rocc_alpha_segments
    /\ tsk.snd_cwnd = rocc_alpha_segments
    /\ sk_pacing_rate > ev.alpha_rate
    /\ sk_pacing_rate #
           2 * beliefs.min_c_lambda * rocc_get_mss(tsk) + ev.alpha_rate

\* C29 (SLOW_START rate law): after a call that fires a decision tick in
\* state SLOW_START the pacing rate is max(alpha_rate, floor(min_c * mss / 2))
\* if min_qdel > 0 and max(alpha_rate, 2 * min_c * mss) if min_qdel = 0, and
\* the window is max(rocc_alpha_segments, floor(4 * max_c * min_rtt_us / 1e6)),
\* the exact quotient: the 32-bit window does not wrap
SlowStartLaw ==
    (ev.tick /\ rocc.state = SLOW_START) =>
        /\ sk_pacing_rate =
               IF beliefs.min_qdel > 0
               THEN max_t(ev.alpha_rate, (beliefs.min_c * rocc_get_mss(tsk)) \div 2)
               ELSE max_t(ev.alpha_rate, 2 * beliefs.min_c * rocc_get_mss(tsk))
        /\ tsk.snd_cwnd =
               max_t(rocc_alpha_segments,
                     MulDiv(4 * beliefs.max_c, rocc.min_rtt_us, U64_S_TO_US))

\* a SLOW_START tick that saw a queue (min_qdel > 0) emitted half of
\* min_c * mss, above the floor alpha_rate
SlowStartLawWitness ==
    /\ ev.tick
    /\ rocc.state = SLOW_START
    /\ beliefs.min_qdel > 0
    /\ sk_pacing_rate = (beliefs.min_c * rocc_get_mss(tsk)) \div 2
    /\ sk_pacing_rate > ev.alpha_rate

\* C30 (the upper bound is tightened only on sustained saturation): with
\* the MSS unchanged, a belief update leaves max_c lower than before only if
\* the first and the second slot behind the head are both valid and both
\* utilized (loss mode, or a minimum RTT above 2 * min_rtt_us); if the first
\* is not utilized, or the second is not valid, max_c is not lowered
MaxCLoweredOnSaturation ==
    [][(ev'.kind = "push" /\ tsk'.mss_cache = tsk.mss_cache) =>
          LET r == rocc'
              slot(k) == r.intervals[Slot(r.intervals_head + k)]
              utilized(k) ==
                  \/ get_loss_mode(slot(k).pkts_acked, slot(k).pkts_lost)
                  \/ slot(k).min_rtt_us > 2 * r.min_rtt_us
              saturated ==
                  /\ ~slot(1).invalid
                  /\ ~slot(2).invalid
                  /\ utilized(1)
                  /\ utilized(2)
          IN  /\ beliefs'.max_c < beliefs.max_c => saturated
              /\ (~utilized(1) \/ slot(1).invalid \/ slot(2).invalid) =>
                     beliefs'.max_c >= beliefs.max_c]_vars

\* the third belief update of a connection found two lossy intervals behind
\* the head and brought max_c below INIT_MAX_C, where the first two updates
\* had left it
MaxCLoweredWitness ==
    /\ ev.kind = "push"
    /\ calls.accepted = 3
    /\ calls.rejected = 0
    /\ ev.new_max_c < INIT_MAX_C
    /\ beliefs.max_c < INIT_MAX_C
    /\ ~rocc.intervals[Slot(rocc.intervals_head + 2)].invalid
    /\ rocc.intervals[Slot(rocc.intervals_head + 3)].invalid

\* C31 as stated (belief consistency is restored by the timeout
\* correction): at the end of every belief update in which the timeout
\* correction ran, max_c >= min_c
TimeoutRestoresConsistency ==
    (ev.kind = "push" /\ ev.timeout) => beliefs.max_c >= beliefs.min_c

\* C32 as stated (no zero or wrapped denominator in the capacity scan):
\* after a belief update, for every slot the scan of update_beliefs went
\* through, the divisor window + jitter is strictly positive and, from the
\* second slot on, window > min_rtt_us, so that window - jitter is positive
\* without unsigned underflow; no division of either update had a zero
\* divisor
ScanDenominatorsPositive ==
    ev.kind = "push" =>
        /\ ~ev.div0
        /\ \A st \in 1..(rocc_num_intervals - 1) :
               (\A k \in 1..st :
                    ~rocc.intervals[Slot(rocc.intervals_head + k)].invalid) =>
                   LET window ==
                           tcp_stamp_us_delta(
                               rocc.intervals[Slot(rocc.intervals_head)].start_us,
                               rocc.intervals[Slot(rocc.intervals_head + st)].start_us)
                   IN  /\ U32(window + rocc.min_rtt_us) > 0
                       /\ st > 1 => window > rocc.min_rtt_us

\* C33 (both belief updates agree on the timeout): in a call that opens an
\* interval, the timeout correction of min_c and max_c runs (and stamps
\* last_timeout_tstamp with the head's start time) exactly when the head's
\* start time is more than rocc_timeout_period * min_rtt_us after the
\* last_timeout_tstamp of before the call, and min_c_lambda and
\* last_min_c_lambda are what the update rule gives for that same timeout
\* value
BeliefUpdatesAgreeOnTimeout ==
    [][ev'.kind = "push" =>
          \E timeout \in
              {tcp_stamp_us_delta(
                   rocc'.intervals[Slot(rocc'.intervals_head)].start_us,
                   rocc.last_timeout_tstamp)
                 > MulU32(rocc_timeout_period, rocc'.min_rtt_us)} :
              /\ ev'.timeout = timeout
              /\ rocc'.last_timeout_tstamp =
                     IF timeout
                     THEN rocc'.intervals[Slot(rocc'.intervals_head)].start_us
                     ELSE rocc.last_timeout_tstamp
              /\ beliefs'.min_c_lambda =
                     min_c_lambda_update(beliefs, ev'.new_min_c_lambda,
                                         timeout).min_c_lambda
              /\ beliefs'.last_min_c_lambda =
                     min_c_lambda_update(beliefs, ev'.new_min_c_lambda,
                                         timeout).last_min_c_lambda]_vars

\* the call of a timeout correction has also let min_c_lambda fall back to
\* last_min_c_lambda, an adopted value above new_min_c_lambda
BeliefUpdatesAgreeWitness ==
    /\ ev.kind = "push"
    /\ ev.timeout
    /\ rocc.last_timeout_tstamp = rocc.intervals[Slot(rocc.intervals_head)].start_us
    /\ ev.new_min_c_lambda < beliefs.min_c_lambda
    /\ beliefs.min_c_lambda = beliefs.last_min_c_lambda
    /\ beliefs.last_min_c_lambda > INIT_MIN_C

\* C34 (simple variant, one reduction per congestion event): a decision tick
\* lowers the window for a recorded loss only if some sample since the
\* previous reduction has reported a loss; losses reported before the last
\* reduction cause no second one
AitdOneReductionPerEvent ==
    (ev.kind = "aitd" /\ ev.tick /\ ev.reduced /\ tsk.snd_cwnd < ev.snd_cwnd_before)
        => ev.new_losses > 0

\* C35 (simple variant, rate follows window): after a decision tick the
\* pacing rate is 1e6 * snd_cwnd * mss / min_rtt_us for the snd_cwnd the tick
\* has set
AitdRateFollowsWindow ==
    (ev.kind = "aitd" /\ ev.tick) =>
        sk_pacing_rate = aitd_pacing_rate(tsk.snd_cwnd, tsk.mss_cache, rocc.min_rtt_us)

\* C36 (interval start times are strictly ordered): walking from the head
\* toward older slots, each valid slot that follows a valid slot started
\* strictly earlier, and at least the current min_rtt_us earlier
IntervalStartsOrdered ==
    \A i \in 0 .. rocc_num_intervals_mask - 1 :
        (/\ rocc.intervals # << >>
         /\ ~rocc.intervals[Slot(rocc.intervals_head + i)].invalid
         /\ ~rocc.intervals[Slot(rocc.intervals_head + i + 1)].invalid)
        => /\ rocc.intervals[Slot(rocc.intervals_head + i)].start_us
                > rocc.intervals[Slot(rocc.intervals_head + i + 1)].start_us
           /\ rocc.intervals[Slot(rocc.intervals_head + i)].start_us
                - rocc.intervals[Slot(rocc.intervals_head + i + 1)].start_us
                >= rocc.min_rtt_us

\* three intervals have been opened, the last one after the minimum RTT fell
\* to 10 ms
IntervalStartsOrderedWitness ==
    /\ ev.kind = "push"
    /\ rocc.min_rtt_us = 10000
    /\ \A i \in 0 .. 2 : ~rocc.intervals[Slot(rocc.intervals_head + i)].invalid
    /\ rocc.intervals[Slot(rocc.intervals_head + 1)].start_us
         - rocc.intervals[Slot(rocc.intervals_head + 2)].start_us = 20000

\* the slots of the history that hold an interval
ValidSlots(r) ==
    {i \in 0 .. rocc_num_intervals_mask : ~r.intervals[i].invalid}

\* C38 (circular buffer shape): intervals_head stays in 0..15; a call that
\* opens an interval moves the head to (head - 1) mod 16 and leaves that slot
\* with invalid = false and processed = false, and any other call leaves the
\* head where it is; the number of valid slots grows by one per opened
\* interval up to 16; the valid slots are the ones reached first when walking
\* from the head toward older slots; no valid slot becomes invalid
CircularBufferShape ==
    [][/\ rocc'.intervals_head \in 0 .. rocc_num_intervals_mask
       /\ IF ev'.kind = "push"
          THEN /\ rocc'.intervals_head =
                      (rocc.intervals_head + rocc_num_intervals_mask)
                          % (rocc_num_intervals_mask + 1)
               /\ ~rocc'.intervals[rocc'.intervals_head].invalid
               /\ ~rocc'.intervals[rocc'.intervals_head].processed
               /\ Cardinality(ValidSlots(rocc')) =
                      min_t(Cardinality(ValidSlots(rocc)) + 1, rocc_num_intervals_mask + 1)
          ELSE /\ rocc'.intervals_head = rocc.intervals_head
               /\ ValidSlots(rocc') = ValidSlots(rocc)
       /\ ValidSlots(rocc) \subseteq ValidSlots(rocc')
       /\ \A j \in 1 .. rocc_num_intervals_mask :
              Slot(rocc'.intervals_head + j) \in ValidSlots(rocc')
              => Slot(rocc'.intervals_head + j - 1) \in ValidSlots(rocc')]_vars

\* the seventeenth interval has been opened (the head is back on slot 15, all
\* sixteen slots stay valid) and a later call has added to it
CircularBufferShapeWitness ==
    /\ ev.kind = "merge"
    /\ rocc.intervals_head = rocc_num_intervals_mask
    /\ HistoryFull
    /\ calls.accepted > 2 * (rocc_num_intervals_mask + 1)

====
